---- MODULE Spec2Model ----
(***************************************************************************)
(* Bolivian Economy Tracker: the normalisation / alignment / windowing     *)
(* engine of the Currency, Macro and Home pages.                           *)
(*                                                                         *)
(* JavaScript values are records tagged by t:                              *)
(*   [t |-> "null"], [t |-> "undefined"], [t |-> "NaN"],                   *)
(*   [t |-> "number", n, d]   the finite number n/d (d > 0, lowest terms), *)
(*   [t |-> "string", s]      a string that is not a date text,            *)
(*   [t |-> "datestr", y,m,d] the string "YYYY-MM-DD",                     *)
(*   [t |-> "tsstr", y,m,d,h] the string "YYYY-MM-DD HH:00:00".            *)
(* Instants (Date.getTime()) are counted in whole hours since the Unix     *)
(* epoch; tz is the local offset of the browser in hours (local = UTC+tz). *)
(*                                                                         *)
(* Each page is its own component with its own state, so each has its own  *)
(* specification over the shared variables: SpecCurrency (Currency page),  *)
(* SpecTrade (Macro page, exports / imports), SpecHome (Home page currency *)
(* snapshot) and SpecRange (applyRange as a function of its arguments);    *)
(* SpecPages follows the App: the tab bar, and the page it has mounted.     *)
(* SpecPick and SpecTs follow pick and parseTsToDate as functions of their *)
(* arguments.  SpecIndicators follows the Macro page's inflation and       *)
(* monetary-base loaders, SpecMacro all four Macro loaders racing with one *)
(* fixed response each in flight, and SpecCurrencyLive is SpecCurrency     *)
(* with the fairness of its request.                                       *)
(***************************************************************************)
EXTENDS Integers, Sequences, FiniteSets, TLC

VARIABLES
  tz,          \* browser time-zone offset in hours (environment)
  labels,      \* applyRange: argument labels
  datasets,    \* applyRange: argument datasets
  range,       \* applyRange: argument range ("" before the first call)
  result,      \* applyRange: returned {labels, datasets}
  called,      \* applyRange: TRUE once result holds a return value
  curRows,     \* Currency: rows state
  curErr,      \* Currency: err state
  curRange,    \* Currency: range state
  curLoad,     \* Currency: Papa.parse request "pending" / "done"
  exp,         \* Macro: exp state (exports rows)
  imp,         \* Macro: imp state (imports rows)
  errExp,      \* Macro: errExp state
  errImp,      \* Macro: errImp state
  expLoad,     \* Macro: exports request "pending" / "done"
  impLoad,     \* Macro: imports request "pending" / "done"
  cpi,         \* Macro: cpi state (inflation rows)
  bm,          \* Macro: bm state (monetary-base rows)
  errCpi,      \* Macro: errCpi state
  errBm,       \* Macro: errBm state
  cpiLoad,     \* Macro: inflation request "pending" / "done"
  bmLoad,      \* Macro: monetary-base request "pending" / "done"
  wire,        \* Macro: the response each Papa.parse request has in flight
  macRange,    \* Macro: range state
  tab,         \* App: tab state
  homeRows,    \* Home: rows state
  homeErr,     \* Home: curErr state
  homeLoad,    \* Home: currency request "pending" / "done"
  pickRow,        \* pick: argument row
  pickCandidates, \* pick: argument candidates
  pickResult,     \* pick: returned value
  pickCalled,     \* pick: TRUE once pickResult holds a return value
  tsArg,          \* parseTsToDate: argument ts
  tsResult,       \* parseTsToDate: returned Date or null
  tsCalled        \* parseTsToDate: TRUE once tsResult holds a return value

vars == <<tz, labels, datasets, range, result, called,
          curRows, curErr, curRange, curLoad,
          exp, imp, errExp, errImp, expLoad, impLoad,
          cpi, bm, errCpi, errBm, cpiLoad, bmLoad, wire, macRange, tab,
          homeRows, homeErr, homeLoad,
          pickRow, pickCandidates, pickResult, pickCalled,
          tsArg, tsResult, tsCalled>>

macroVars == <<cpi, bm, errCpi, errBm, cpiLoad, bmLoad, wire, macRange>>

rangeVars == <<labels, datasets, range, result, called>>
curVars   == <<curRows, curErr, curRange, curLoad>>
tradeVars == <<exp, imp, errExp, errImp, expLoad, impLoad>>
homeVars  == <<homeRows, homeErr, homeLoad>>
pickVars  == <<pickRow, pickCandidates, pickResult, pickCalled>>
tsVars    == <<tsArg, tsResult, tsCalled>>

(***************************************************************************)
(* Bounds                                                                  *)
(***************************************************************************)
MaxLabels  == 3
MaxCurRows == 2
MaxExpRows == 3
MaxImpRows == 2
MaxHomeRows == 2
MaxOverWindow == 2
MaxCycle == 3
MaxCandidates == 3
MaxCpiRows == 2
MaxBmRows == 1

TZOffsets == {-4, 0, 2}

(***************************************************************************)
(* JavaScript values                                                       *)
(***************************************************************************)
Null      == [t |-> "null"]
Undefined == [t |-> "undefined"]
NaN       == [t |-> "NaN"]
Str(s)    == [t |-> "string", s |-> s]
EmptyStr  == Str("")

RECURSIVE GCD(_, _)
GCD(a, b) == IF b = 0 THEN a ELSE GCD(b, a % b)

Abs(x) == IF x < 0 THEN -x ELSE x

\* the finite number n/d
Rat(n, d) ==
  LET s == IF d < 0 THEN -1 ELSE 1
      g == GCD(Abs(n), Abs(d))
  IN  [t |-> "number", n |-> (s * n) \div g, d |-> (s * d) \div g]

Num(n) == [t |-> "number", n |-> n, d |-> 1]

DateStr(y, m, d)  == [t |-> "datestr", y |-> y, m |-> m, d |-> d]
TsStr(y, m, d, h) == [t |-> "tsstr", y |-> y, m |-> m, d |-> d, h |-> h]

IsNullish(x) == x.t \in {"null", "undefined"}

\* !x is false
Truthy(x) ==
  CASE x.t \in {"null", "undefined", "NaN"} -> FALSE
    [] x.t = "number" -> x.n # 0
    [] x.t = "string" -> x.s # ""
    [] x.t = "digits" -> ~(x.num /\ x.n = [l2 |-> 0, l1 |-> 0, l0 |-> 0])
    [] OTHER -> TRUE

\* a ?? b
Coalesce(a, b) == IF IsNullish(a) THEN b ELSE a

\* the numeric strings of the model and their values
NumericStrings == {"7"}
StringToNumber(s) ==
  CASE s = ""  -> Num(0)
    [] s = "7" -> Num(7)
    [] OTHER   -> NaN

\* Number(x)
ToNumber(x) ==
  CASE x.t = "number"    -> x
    [] x.t = "null"      -> Num(0)
    [] x.t = "string"    -> StringToNumber(x.s)
    [] OTHER             -> NaN

JsAdd(a, b) ==
  LET x == ToNumber(a)
      y == ToNumber(b)
  IN  IF x.t = "NaN" \/ y.t = "NaN" THEN NaN
      ELSE Rat(x.n * y.d + y.n * x.d, x.d * y.d)

JsSub(a, b) ==
  LET x == ToNumber(a)
      y == ToNumber(b)
  IN  IF x.t = "NaN" \/ y.t = "NaN" THEN NaN
      ELSE Rat(x.n * y.d - y.n * x.d, x.d * y.d)

JsMul(a, b) ==
  LET x == ToNumber(a)
      y == ToNumber(b)
  IN  IF x.t = "NaN" \/ y.t = "NaN" THEN NaN
      ELSE Rat(x.n * y.n, x.d * y.d)

\* a / b for a divisor that is not zero
JsDiv(a, b) ==
  LET x == ToNumber(a)
      y == ToNumber(b)
  IN  IF x.t = "NaN" \/ y.t = "NaN" \/ y.n = 0 THEN NaN
      ELSE Rat(x.n * y.d, x.d * y.n)

(***************************************************************************)
(* Calendar and Date                                                       *)
(***************************************************************************)
\* days since 1970-01-01 of the civil date y-m-d (m in 1..12)
DaysFromCivil(y, m, d) ==
  LET yy  == IF m <= 2 THEN y - 1 ELSE y
      era == yy \div 400
      yoe == yy - era * 400
      mp  == IF m > 2 THEN m - 3 ELSE m + 9
      doy == (153 * mp + 2) \div 5 + d - 1
      doe == yoe * 365 + yoe \div 4 - yoe \div 100 + doy
  IN  era * 146097 + doe - 719468

\* the civil date of day number z
CivilFromDays(z) ==
  LET zz  == z + 719468
      era == zz \div 146097
      doe == zz - era * 146097
      yoe == (doe - doe \div 1460 + doe \div 36524 - doe \div 146096) \div 365
      doy == doe - (365 * yoe + yoe \div 4 - yoe \div 100)
      mp  == (5 * doy + 2) \div 153
      d   == doy - (153 * mp + 2) \div 5 + 1
      m   == IF mp < 10 THEN mp + 3 ELSE mp - 9
      y   == yoe + era * 400 + (IF m <= 2 THEN 1 ELSE 0)
  IN  [y |-> y, m |-> m, d |-> d]

InvalidDate == [valid |-> FALSE, time |-> 0]
DateAt(h)   == [valid |-> TRUE, time |-> h]

\* new Date(s): a date-only ISO text is UTC midnight, a date-time text
\* without offset is local time, any other string is an Invalid Date
NewDate(s, tzo) ==
  CASE s.t = "datestr" -> DateAt(DaysFromCivil(s.y, s.m, s.d) * 24)
    [] s.t = "tsstr"   -> DateAt(DaysFromCivil(s.y, s.m, s.d) * 24 + s.h - tzo)
    [] OTHER           -> InvalidDate

\* new Date(year, monthIndex, day): local midnight
NewLocalDate(y, monthIndex, d, tzo) ==
  DateAt(DaysFromCivil(y, monthIndex + 1, d) * 24 - tzo)

\* the local civil date of an instant
LocalCivil(date, tzo) == CivilFromDays((date.time + tzo) \div 24)

getFullYear(date, tzo) == LocalCivil(date, tzo).y
getMonth(date, tzo)    == LocalCivil(date, tzo).m - 1

(***************************************************************************)
(* Macro: applyRange                                                       *)
(***************************************************************************)
parseIsoDate(s, tzo) ==
  IF ~Truthy(s) THEN InvalidDate ELSE NewDate(s, tzo)

RECURSIVE LastTruthyIdx(_, _)
\* the while loop: the last index <= i with a truthy label, 0 when none
LastTruthyIdx(ls, i) ==
  IF i >= 1 /\ ~Truthy(ls[i]) THEN LastTruthyIdx(ls, i - 1) ELSE i

RangeTokens == {"YTD", "5Y", "10Y", "ALL"}

startDate(lastDate, rng, tzo) ==
  CASE rng = "YTD" -> NewLocalDate(getFullYear(lastDate, tzo), 0, 1, tzo)
    [] rng = "5Y"  -> NewLocalDate(getFullYear(lastDate, tzo) - 5, getMonth(lastDate, tzo), 1, tzo)
    [] rng = "10Y" -> NewLocalDate(getFullYear(lastDate, tzo) - 10, getMonth(lastDate, tzo), 1, tzo)
    [] OTHER       -> InvalidDate

Indices(n) == [i \in 1..n |-> i]

\* the indices the for loop pushes, in order
keptIndices(ls, start, tzo) ==
  SelectSeq(Indices(Len(ls)),
            LAMBDA i : LET d == parseIsoDate(ls[i], tzo)
                       IN  d.valid /\ ~(d.time < start.time))

\* ds.data[i], undefined when out of range
DataAt(ds, i) == IF i \in DOMAIN ds.data THEN ds.data[i] ELSE Undefined

\* applyRange keeping only the labels before the anchor (faulty variant for C25)
applyRange_AnchorExcluded(ls, dss, rng, tzo) ==
  LET same    == [labels |-> ls, datasets |-> dss]
      lastIdx == LastTruthyIdx(ls, Len(ls))
  IN  IF rng = "ALL" THEN same
      ELSE IF lastIdx < 1 THEN same
      ELSE LET lastDate == parseIsoDate(ls[lastIdx], tzo)
           IN  IF ~lastDate.valid THEN same
               ELSE IF rng \notin {"YTD", "5Y", "10Y"} THEN same
               ELSE LET start == startDate(lastDate, rng, tzo)
                        keep  == SelectSeq(keptIndices(ls, start, tzo), LAMBDA i :
                                   parseIsoDate(ls[i], tzo).time < lastDate.time)
                    IN  [labels   |-> [k \in DOMAIN keep |-> ls[keep[k]]],
                         datasets |-> [j \in DOMAIN dss |->
                            [dss[j] EXCEPT !.data =
                               [k \in DOMAIN keep |-> DataAt(dss[j], keep[k])]]]]

\* a wrong applyRange: the labels are cut to the window, the data arrays are not
applyRange_DataUncut(ls, dss, rng, tzo) ==
  LET same    == [labels |-> ls, datasets |-> dss]
      lastIdx == LastTruthyIdx(ls, Len(ls))
  IN  IF rng = "ALL" THEN same
      ELSE IF lastIdx < 1 THEN same
      ELSE LET lastDate == parseIsoDate(ls[lastIdx], tzo)
           IN  IF ~lastDate.valid THEN same
               ELSE IF rng \notin {"YTD", "5Y", "10Y"} THEN same
               ELSE LET start == startDate(lastDate, rng, tzo)
                        keep  == keptIndices(ls, start, tzo)
                    IN  [labels   |-> [k \in DOMAIN keep |-> ls[keep[k]]],
                         datasets |-> dss]

\* applyRange with 'ALL' sliced like '10Y' (faulty variant for C9)
applyRange_AllAsTenYears(ls, dss, rng, tzo) ==
  LET same    == [labels |-> ls, datasets |-> dss]
      lastIdx == LastTruthyIdx(ls, Len(ls))
      r       == IF rng = "ALL" THEN "10Y" ELSE rng
  IN  IF lastIdx < 1 THEN same
      ELSE LET lastDate == parseIsoDate(ls[lastIdx], tzo)
           IN  IF ~lastDate.valid THEN same
               ELSE IF r \notin {"YTD", "5Y", "10Y"} THEN same
               ELSE LET start == startDate(lastDate, r, tzo)
                        keep  == keptIndices(ls, start, tzo)
                    IN  [labels   |-> [k \in DOMAIN keep |-> ls[keep[k]]],
                         datasets |-> [j \in DOMAIN dss |->
                            [dss[j] EXCEPT !.data =
                               [k \in DOMAIN keep |-> DataAt(dss[j], keep[k])]]]]

applyRange(ls, dss, rng, tzo) ==
  LET same    == [labels |-> ls, datasets |-> dss]
      lastIdx == LastTruthyIdx(ls, Len(ls))
  IN  IF rng = "ALL" THEN same
      ELSE IF lastIdx < 1 THEN same
      ELSE LET lastDate == parseIsoDate(ls[lastIdx], tzo)
           IN  IF ~lastDate.valid THEN same
               ELSE IF rng \notin {"YTD", "5Y", "10Y"} THEN same
               ELSE LET start == startDate(lastDate, rng, tzo)
                        keep  == keptIndices(ls, start, tzo)
                    IN  [labels   |-> [k \in DOMAIN keep |-> ls[keep[k]]],
                         datasets |-> [j \in DOMAIN dss |->
                            [dss[j] EXCEPT !.data =
                               [k \in DOMAIN keep |-> DataAt(dss[j], keep[k])]]]]

\* applyRange returns { labels, datasets }: the very arrays it was given
\* (the early returns), not arrays it built
applyRangeReturnsArguments(ls, dss, rng, tzo) ==
  LET lastIdx == LastTruthyIdx(ls, Len(ls))
  IN  \/ rng = "ALL"
      \/ lastIdx < 1
      \/ ~parseIsoDate(ls[lastIdx], tzo).valid
      \/ rng \notin {"YTD", "5Y", "10Y"}

(***************************************************************************)
(* Shared helpers of the pages                                             *)
(***************************************************************************)
\* (x === null || x === undefined || x === '' ? null : Number(x))
asNum(x) ==
  IF x.t = "null" \/ x.t = "undefined" \/ x = EmptyStr THEN Null ELSE ToNumber(x)

\* arr.at(-1), undefined for the empty array
AtLast(arr) == IF Len(arr) = 0 THEN Undefined ELSE arr[Len(arr)]

\* for (const k of candidates) if (k in row) return row[k]; return undefined
\* from candidate i on; a row is a function from its column names to cells
RECURSIVE FirstPresent(_, _, _)
FirstPresent(row, candidates, i) ==
  IF i > Len(candidates) THEN Undefined
  ELSE IF candidates[i] \in DOMAIN row THEN row[candidates[i]]
  ELSE FirstPresent(row, candidates, i + 1)

\* a wrong pick: a candidate whose cell is absent is passed over
pick_SkipsAbsentCells(row, candidates) ==
  IF row = Null \/ row = Undefined THEN Undefined
  ELSE LET present == SelectSeq(candidates, LAMBDA k :
                        k \in DOMAIN row /\ ~(IsNullish(row[k]) \/ row[k] = EmptyStr))
       IN  FirstPresent(row, present, 1)

\* a wrong pick: 0 when no candidate is a column of the row
pick_MissingAsZero(row, candidates) ==
  IF row = Null \/ row = Undefined THEN Num(0)
  ELSE IF \E i \in DOMAIN candidates : candidates[i] \in DOMAIN row
       THEN FirstPresent(row, candidates, 1)
       ELSE Num(0)

\* const pick = (row, candidates) => { if (!row) return undefined; ... }
pick(row, candidates) ==
  IF row = Null \/ row = Undefined THEN Undefined
  ELSE FirstPresent(row, candidates, 1)

(***************************************************************************)
(* Currency page                                                           *)
(***************************************************************************)
\* parseTs: new Date(ts) when valid; the regular-expression fallback builds
\* the same local date-time for "YYYY-MM-DD HH:MM:SS" and matches no other
\* string of the model
parseTs(ts, tzo) ==
  IF ~Truthy(ts) THEN InvalidDate ELSE NewDate(ts, tzo)

\* cutoffHours with a 31-day month (faulty variant for C8)
cutoffHours_Month31(rng) ==
  CASE rng = "1W" -> 24 * 7
    [] rng = "1M" -> 24 * 31
    [] OTHER      -> 24

\* cutoffHours with the week and the month exchanged (faulty variant for C27)
cutoffHours_WeekMonthSwapped(rng) ==
  CASE rng = "1W" -> 24 * 30
    [] rng = "1M" -> 24 * 7
    [] OTHER      -> 24

cutoffHours(rng) ==
  CASE rng = "1W" -> 24 * 7
    [] rng = "1M" -> 24 * 30
    [] OTHER      -> 24

\* filtered with the window closed before the anchor (faulty variant for C26)
filtered_AnchorExcluded(rows, rng, tzo) ==
  IF Len(rows) = 0 THEN <<>>
  ELSE LET lastRow  == rows[Len(rows)]
           lastDate == parseTs(lastRow.ts, tzo)
       IN  IF ~lastDate.valid THEN <<>>
           ELSE LET now    == lastDate.time
                    cutoff == now - cutoffHours(rng)
                IN  SelectSeq(rows, LAMBDA r :
                      LET d == parseTs(r.ts, tzo)
                      IN  d.valid /\ d.time >= cutoff /\ d.time < now)

\* const filtered = useMemo(...)
filtered(rows, rng, tzo) ==
  IF Len(rows) = 0 THEN <<>>
  ELSE LET lastRow  == rows[Len(rows)]
           lastDate == parseTs(lastRow.ts, tzo)
       IN  IF ~lastDate.valid THEN <<>>
           ELSE LET now    == lastDate.time
                    cutoff == now - cutoffHours(rng)
                IN  SelectSeq(rows, LAMBDA r :
                      LET d == parseTs(r.ts, tzo)
                      IN  d.valid /\ d.time >= cutoff)

\* const labels = filtered.map(r => r.ts)
curLabels(rows, rng, tzo) ==
  LET f == filtered(rows, rng, tzo)
  IN  [i \in DOMAIN f |-> f[i].ts]

\* const latest = filtered.length ? filtered[filtered.length - 1] : null
curLatest(rows, rng, tzo) ==
  LET f == filtered(rows, rng, tzo)
  IN  IF Len(f) # 0 THEN f[Len(f)] ELSE Null

\* {err && <p>Error: {err}</p>}
showsError(err) == Truthy(err)

\* {!err && rows.length === 0 && <p>Loading data...</p>}
showsLoading(rows, err) == ~Truthy(err) /\ Len(rows) = 0

\* {latest && (<> KPIs and charts </>)}
showsData(rows, rng, tzo) == curLatest(rows, rng, tzo) # Null

\* const series = useMemo(...)
series(rows, rng, tzo) ==
  LET f == filtered(rows, rng, tzo)
  IN  [ mid        |-> [i \in DOMAIN f |-> asNum(f[i].mid_BOB_per_USDT)],
        bid        |-> [i \in DOMAIN f |-> asNum(f[i].best_bid)],
        ask        |-> [i \in DOMAIN f |-> asNum(f[i].best_ask)],
        spreadBest |-> [i \in DOMAIN f |-> asNum(f[i].spread_pct)],
        effSpread  |-> [i \in DOMAIN f |-> asNum(f[i].effective_spread_pct)],
        marketW    |-> [i \in DOMAIN f |-> asNum(f[i].market_width_pct)],
        buyC       |-> [i \in DOMAIN f |-> asNum(f[i].buy_count)],
        sellC      |-> [i \in DOMAIN f |-> asNum(f[i].sell_count)],
        imb        |-> [i \in DOMAIN f |-> asNum(f[i].depth_imbalance)],
        vol24      |-> [i \in DOMAIN f |-> asNum(f[i].rolling_24h_vol)],
        vol7d      |-> [i \in DOMAIN f |-> asNum(f[i].rolling_7d_vol)] ]

\* v => v * 100
times100(v) == JsMul(v, Num(100))

priceChart(rows, rng, tzo) ==
  LET s == series(rows, rng, tzo)
  IN  [ labels   |-> curLabels(rows, rng, tzo),
        datasets |-> << [label |-> "Mid (BOB/USDT)", data |-> s.mid],
                        [label |-> "Best Bid", data |-> s.bid],
                        [label |-> "Best Ask", data |-> s.ask] >> ]

spreadsChart(rows, rng, tzo) ==
  LET s == series(rows, rng, tzo)
  IN  [ labels   |-> curLabels(rows, rng, tzo),
        datasets |->
          << [label |-> "Spread % (best)", data |-> [i \in DOMAIN s.spreadBest |-> times100(s.spreadBest[i])]],
             [label |-> "Effective Spread %", data |-> [i \in DOMAIN s.effSpread |-> times100(s.effSpread[i])]] >>
          \o (IF \E i \in DOMAIN s.marketW : ~IsNullish(s.marketW[i])
              THEN << [label |-> "Market Width %", data |-> [i \in DOMAIN s.marketW |-> times100(s.marketW[i])]] >>
              ELSE << >>) ]

liquidityChart(rows, rng, tzo) ==
  LET s == series(rows, rng, tzo)
  IN  [ labels   |-> curLabels(rows, rng, tzo),
        datasets |-> << [label |-> "Buy Count", data |-> s.buyC],
                        [label |-> "Sell Count", data |-> s.sellC],
                        [label |-> "Depth Imbalance", data |-> s.imb] >> ]

volChart(rows, rng, tzo) ==
  LET s == series(rows, rng, tzo)
  IN  [ labels   |-> curLabels(rows, rng, tzo),
        datasets |-> << [label |-> "Rolling 24h Vol", data |-> s.vol24],
                        [label |-> "Rolling 7d Vol", data |-> s.vol7d] >> ]

(***************************************************************************)
(* Macro page: exports / imports alignment and trade balance               *)
(***************************************************************************)
\* const expDates = exp.map(r => r.date)
expDates(e) == [i \in DOMAIN e |-> e[i].date]

\* const expFOB = exp.map(r => asNum(r['FOB']))
expFOB(e) == [i \in DOMAIN e |-> asNum(e[i].FOB)]

\* asNum(r['TotalImportaciones_FOBAjustado_MillonesUSD'] ?? r['TotalImportaciones_FOB'])
importValue(r) ==
  asNum(Coalesce(r.TotalImportaciones_FOBAjustado_MillonesUSD, r.TotalImportaciones_FOB))

\* const impFOBAdj = imp.map(...)
impFOBAdj(m) == [i \in DOMAIN m |-> importValue(m[i])]

\* latestExp / latestImp = rows.at(-1) || null
latestRow(rows) == IF Len(rows) = 0 THEN Null ELSE rows[Len(rows)]

latestExportsFOB(e) ==
  IF Len(e) = 0 THEN Null ELSE asNum(latestRow(e).FOB)

latestImportsFOBAdj(m) ==
  IF Len(m) = 0 THEN Null ELSE importValue(latestRow(m))

RECURSIVE impByDateUpTo(_, _)
\* the Map after the first k rows went through m.set(row.date, row)
impByDateUpTo(m, k) ==
  IF k = 0 THEN << >>
  ELSE LET prev == impByDateUpTo(m, k - 1)
           row  == m[k]
       IN  IF Truthy(row.date)
           THEN [d \in DOMAIN prev \cup {row.date} |->
                   IF d = row.date THEN row ELSE prev[d]]
           ELSE prev

\* impByDate keeping the first row of a date (faulty variant for C28)
impByDate_KeepsFirst(m) ==
  [d \in { m[j].date : j \in { k \in DOMAIN m : Truthy(m[k].date) } } |->
     m[CHOOSE j \in DOMAIN m :
         /\ m[j].date = d
         /\ \A k \in DOMAIN m : m[k].date = d => j <= k]]

\* const impByDate = useMemo(...): a function from date key to row
impByDate(m) == impByDateUpTo(m, Len(m))

\* const tradeDates = useMemo(() => expDates, [expDates])
tradeDates(e) == expDates(e)

\* importsForTrade joined by row position instead of date (faulty variant for C3)
importsForTrade_Positional(e, m) ==
  [i \in DOMAIN tradeDates(e) |->
     IF i \notin DOMAIN m THEN Null ELSE importValue(m[i])]

\* const importsForTrade = useMemo(...)
importsForTrade(e, m) ==
  LET byDate == impByDate(m)
      dates  == tradeDates(e)
  IN  [i \in DOMAIN dates |->
         IF dates[i] \notin DOMAIN byDate THEN Null
         ELSE importValue(byDate[dates[i]])]

\* tradeBalance against the unaligned impFOBAdj (faulty variant for C4)
tradeBalance_Unaligned(e, m) ==
  LET xs == expFOB(e)
      ms == impFOBAdj(m)
  IN  [idx \in DOMAIN tradeDates(e) |->
         IF idx \notin DOMAIN ms THEN Null
         ELSE IF IsNullish(xs[idx]) \/ IsNullish(ms[idx]) THEN Null
         ELSE JsSub(xs[idx], ms[idx])]

\* tradeBalance counting an import without a value as zero (faulty variant for C22)
tradeBalance_MissingAsZero(e, m) ==
  LET xs == expFOB(e)
      ms == importsForTrade(e, m)
  IN  [idx \in DOMAIN tradeDates(e) |->
         IF IsNullish(xs[idx]) THEN Null
         ELSE IF IsNullish(ms[idx]) THEN xs[idx]
         ELSE JsSub(xs[idx], ms[idx])]

\* const tradeBalance = useMemo(...)
tradeBalance(e, m) ==
  LET xs == expFOB(e)
      ms == importsForTrade(e, m)
  IN  [idx \in DOMAIN tradeDates(e) |->
         IF IsNullish(xs[idx]) \/ IsNullish(ms[idx]) THEN Null
         ELSE JsSub(xs[idx], ms[idx])]

\* const latestTradeBalance = ... (Macro and Home compute it alike)
latestTradeBalance(e, m) ==
  LET x == latestExportsFOB(e)
      i == latestImportsFOBAdj(m)
  IN  IF ~IsNullish(x) /\ ~IsNullish(i) THEN JsSub(x, i) ELSE Null

\* const tradeFlowsData = applyRange(tradeDates, [exports, imports], range)
tradeFlowsData(e, m, rng, tzo) ==
  applyRange(tradeDates(e),
             << [label |-> "Exports (FOB, millions USD)", data |-> expFOB(e)],
                [label |-> "Imports (FOB, millions USD)", data |-> importsForTrade(e, m)] >>,
             rng, tzo)

\* const tradeBalanceData = applyRange(tradeDates, [balance], range)
\* (the label's minus sign U+2212 is written as a hyphen here)
tradeBalanceData(e, m, rng, tzo) ==
  applyRange(tradeDates(e),
             << [label |-> "Trade balance (X - M)", data |-> tradeBalance(e, m)] >>,
             rng, tzo)

(***************************************************************************)
(* Home page: mid of best bid and best ask                                 *)
(***************************************************************************)
\* r?.best_bid: undefined for an absent row
FieldOf(r, f) == IF f \in DOMAIN r THEN r[f] ELSE Undefined

\* midFromBA with Number() in place of asNum (faulty variant for C2)
midFromBA_NumberCoercion(r) ==
  LET bid == ToNumber(FieldOf(r, "best_bid"))
      ask == ToNumber(FieldOf(r, "best_ask"))
  IN  IF IsNullish(bid) \/ IsNullish(ask) THEN Null
      ELSE JsDiv(JsAdd(bid, ask), Num(2))

midFromBA(r) ==
  LET bid == asNum(FieldOf(r, "best_bid"))
      ask == asNum(FieldOf(r, "best_ask"))
  IN  IF IsNullish(bid) \/ IsNullish(ask) THEN Null
      ELSE JsDiv(JsAdd(bid, ask), Num(2))

\* const computedMids = rows.map(midFromBA)
computedMids(rows) == [i \in DOMAIN rows |-> midFromBA(rows[i])]

\* const computedLatestMid = latest ? midFromBA(latest) : null
computedLatestMid(rows) ==
  IF Len(rows) = 0 THEN Null ELSE midFromBA(rows[Len(rows)])


(***************************************************************************)
(* Home page: spark window, its annotations, and the change of the mid     *)
(***************************************************************************)
\* the spark line shows the last 48 rows
SparkWindow == 48

\* arr.slice(-n)
sliceLast(arr, n) ==
  IF Len(arr) <= n THEN arr ELSE SubSeq(arr, Len(arr) - n + 1, Len(arr))

\* const sparkSlice = computedMids.slice(-48)
sparkSlice(rows) == sliceLast(computedMids(rows), SparkWindow)

\* sparkRows cut one row shorter than sparkSlice (faulty variant for C29)
sparkRows_ShorterWindow(rows) == sliceLast(rows, SparkWindow - 1)

\* const sparkRows = rows.slice(-48)
sparkRows(rows) == sliceLast(rows, SparkWindow)

\* const sparkLabels = sparkRows.map(r => r.ts)
sparkLabels(rows) ==
  LET sr == sparkRows(rows)
  IN  [k \in DOMAIN sr |-> sr[k].ts]

\* sparkSlice.map((v, i) => ({ v, i })).filter(({ v }) => v != null);
\* i is the zero-based position in the window
validPairs(rows) ==
  LET w == sparkSlice(rows)
  IN  SelectSeq([k \in DOMAIN w |-> [v |-> w[k], i |-> k - 1]],
                LAMBDA p : ~IsNullish(p.v))

\* a < b on numbers; false when either is NaN
JsLess(a, b) ==
  IF a.t = "number" /\ b.t = "number" THEN a.n * b.d < b.n * a.d ELSE FALSE

\* (a, b) => (b.v < a.v ? b : a)
MinStep(a, b) ==
  LET acc == a
  IN  IF JsLess(b.v, acc.v) THEN b ELSE acc

\* (a, b) => (b.v > a.v ? b : a)
MaxStep(a, b) ==
  LET acc == a
  IN  IF JsLess(acc.v, b.v) THEN b ELSE acc

\* reduce with MinStep: pairs[lo..hi] folded into the accumulator a from left
\* to right.  The range is walked in halves and the accumulator of the left
\* half is evaluated (left = left) before the right half is folded: the
\* steps and their order are those of reduce, the evaluation stays shallow.
RECURSIVE ReduceMin(_, _, _, _)
ReduceMin(pairs, a, lo, hi) ==
  IF lo > hi THEN a
  ELSE IF lo = hi THEN MinStep(a, pairs[lo])
  ELSE LET mid  == (lo + hi) \div 2
           left == ReduceMin(pairs, a, lo, mid)
       IN  IF left = left THEN ReduceMin(pairs, left, mid + 1, hi) ELSE left

\* reduce with MaxStep, likewise
RECURSIVE ReduceMax(_, _, _, _)
ReduceMax(pairs, a, lo, hi) ==
  IF lo > hi THEN a
  ELSE IF lo = hi THEN MaxStep(a, pairs[lo])
  ELSE LET mid  == (lo + hi) \div 2
           left == ReduceMax(pairs, a, lo, mid)
       IN  IF left = left THEN ReduceMax(pairs, left, mid + 1, hi) ELSE left

\* const minPair = validPairs.length ? validPairs.reduce(...) : null
minPair(rows) ==
  LET vp == validPairs(rows)
  IN  IF Len(vp) # 0 THEN ReduceMin(vp, vp[1], 2, Len(vp)) ELSE Null

\* const maxPair = validPairs.length ? validPairs.reduce(...) : null
maxPair(rows) ==
  LET vp == validPairs(rows)
  IN  IF Len(vp) # 0 THEN ReduceMax(vp, vp[1], 2, Len(vp)) ELSE Null

\* const lastMid = computedMids.at(-1)
lastMid(rows) == AtLast(computedMids(rows))

\* const prevMid = computedMids.at(-2)
prevMid(rows) ==
  LET ms == computedMids(rows)
  IN  IF Len(ms) < 2 THEN Undefined ELSE ms[Len(ms) - 1]

\* a !== 0
NotStrictlyZero(a) == ~(a.t = "number" /\ a.n = 0)

\* const dAbs = (lastMid != null && prevMid != null) ? (lastMid - prevMid) : null
dAbs(rows) ==
  LET l == lastMid(rows)
      p == prevMid(rows)
  IN  IF ~IsNullish(l) /\ ~IsNullish(p) THEN JsSub(l, p) ELSE Null

\* a wrong dPct: the guard prevMid !== 0 is missing
dPct_NoZeroGuard(rows) ==
  LET l == lastMid(rows)
      p == prevMid(rows)
  IN  IF ~IsNullish(l) /\ ~IsNullish(p) THEN JsDiv(JsSub(l, p), p) ELSE Null

\* const dPct = (lastMid != null && prevMid != null && prevMid !== 0)
\*   ? (lastMid - prevMid) / prevMid : null
dPct(rows) ==
  LET l == lastMid(rows)
      p == prevMid(rows)
  IN  IF ~IsNullish(l) /\ ~IsNullish(p) /\ NotStrictlyZero(p)
      THEN JsDiv(JsSub(l, p), p) ELSE Null

\* function drawDotLabel(pair, placeAbove): the dot-and-label marks it draws
drawDotLabel(pair, placeAbove) ==
  IF pair = Null THEN << >>
  ELSE << [xi |-> pair.i, v |-> pair.v, above |-> placeAbove] >>

\* the 'last' mark of afterDatasetsDraw: drawn when lastMid != null
drawLast(rows) ==
  IF ~IsNullish(lastMid(rows))
  THEN << [xi |-> Len(sparkLabels(rows)) - 1, v |-> lastMid(rows)] >>
  ELSE << >>

\* annotateSpark.afterDatasetsDraw: the marks drawn on the spark line
annotateSpark(rows) ==
  [ min  |-> drawDotLabel(minPair(rows), TRUE),
    max  |-> drawDotLabel(maxPair(rows), FALSE),
    last |-> drawLast(rows) ]

(***************************************************************************)
(* KPI texts: fmt and pct                                                  *)
(***************************************************************************)
\* the text '—'
NoData == [t |-> "text", sentinel |-> TRUE]

RECURSIVE Pow10(_)
Pow10(d) == IF d = 0 THEN 1 ELSE 10 * Pow10(d - 1)

\* x.toFixed(d) of a finite number, with the suffix appended to it: the
\* decimal text of units / 10^d, units being x * 10^d rounded to the
\* nearest integer (halves away from zero)
toFixed(x, d, suffix) ==
  LET mag   == (2 * Abs(x.n) * Pow10(d) + x.d) \div (2 * x.d)
      units == IF x.n < 0 THEN -mag ELSE mag
  IN  [t |-> "text", sentinel |-> FALSE, units |-> units, digits |-> d,
       suffix |-> suffix]

\* isNaN(x)
isNaN(x) == ToNumber(x).t = "NaN"

\* const fmt = (x, d) => (x === null || x === undefined || isNaN(x)
\*   ? '—' : Number(x).toFixed(d))
fmt(x, d) ==
  IF x.t = "null" \/ x.t = "undefined" \/ isNaN(x) THEN NoData
  ELSE toFixed(ToNumber(x), d, "")

\* const pct = (x, d) => (x === null || x === undefined || isNaN(x)
\*   ? '—' : (Number(x)*100).toFixed(d) + '%')
pct(x, d) ==
  IF x.t = "null" \/ x.t = "undefined" \/ isNaN(x) THEN NoData
  ELSE toFixed(JsMul(ToNumber(x), Num(100)), d, "%")

\* the KPI texts of the Home currency snapshot, rendered when latest is set
homeKpis(rows) ==
  LET latest == AtLast(rows)
  IN  [ mid    |-> fmt(computedLatestMid(rows), 4),
        bid    |-> fmt(FieldOf(latest, "best_bid"), 4),
        ask    |-> fmt(FieldOf(latest, "best_ask"), 4),
        spread |-> pct(FieldOf(latest, "spread_pct"), 3),
        dAbs   |-> fmt(dAbs(rows), 4),
        dPct   |-> pct(dPct(rows), 2) ]

(***************************************************************************)
(* Home page: parseTsToDate                                                *)
(***************************************************************************)
\* Epoch values pass 2^31, so a non-negative integer is kept in three limbs
\* of six decimal digits: Big(l2, l1, l0) is l2 * 10^12 + l1 * 10^6 + l0.
Big(l2, l1, l0) == [l2 |-> l2, l1 |-> l1, l0 |-> l0]

\* an all-digit ts cell of value n: the number n (num) or the text of n
Digits(num, n) == [t |-> "digits", num |-> num, n |-> n]

\* n * 1000
BigTimes1000(n) ==
  LET p0 == n.l0 * 1000
      p1 == n.l1 * 1000 + p0 \div 1000000
      p2 == n.l2 * 1000 + p1 \div 1000000
  IN  Big(p2, p1 % 1000000, p0 % 1000000)

\* n > 1e12
GreaterThan1e12(n) == n.l2 > 1 \/ (n.l2 = 1 /\ (n.l1 > 0 \/ n.l0 > 0))

\* a time value a Date can hold: at most 8.64e15 ms
IsTimeValue(ms) == ms.l2 < 8640 \/ (ms.l2 = 8640 /\ ms.l1 = 0 /\ ms.l0 = 0)

\* h hours in milliseconds (h >= 0)
HoursToMs(h) ==
  LET q    == h * 36
      rest == q \div 10
  IN  Big(rest \div 1000000, rest % 1000000, (q % 10) * 100000)

\* a valid Date whose getTime() is ms
DateOfMs(ms) == [valid |-> TRUE, ms |-> ms]

\* function parseTsToDate(ts): all digits -> new Date(n > 1e12 ? n : n * 1000);
\* otherwise new Date(iso), iso being s with its blank replaced by 'T' when s
\* has 19 characters and no 'T'; null for a falsy ts and for an Invalid Date
parseTsToDate(ts, tzo) ==
  IF ~Truthy(ts) THEN Null
  ELSE IF ts.t = "digits"
       THEN LET n  == ts.n
                ms == IF GreaterThan1e12(n) THEN n ELSE BigTimes1000(n)
            IN  IF IsTimeValue(ms) THEN DateOfMs(ms) ELSE Null
       ELSE LET d == NewDate(ts, tzo)
            IN  IF d.valid THEN DateOfMs(HoursToMs(d.time)) ELSE Null

(***************************************************************************)
(* Specification of applyRange as a function of its arguments             *)
(***************************************************************************)
NoResult == [labels |-> <<>>, datasets |-> <<>>]

\* the date column values offered to applyRange
LabelSet ==
  { DateStr(2023, 6, 15), DateStr(2023, 1, 1), DateStr(2022, 12, 31),
    DateStr(2018, 6, 1),  DateStr(2018, 5, 31),
    DateStr(2013, 6, 1),  DateStr(2013, 5, 31),
    Null, Str("n/a") }

SeqsUpTo(S, n) == UNION { [1..k -> S] : k \in 0..n }

\* two datasets parallel to the labels, as the chart builders pass them
DatasetsFor(ls) ==
  << [label |-> "A", data |-> [i \in DOMAIN ls |-> Num(i)]],
     [label |-> "B", data |-> [i \in DOMAIN ls |->
                                 IF i % 2 = 0 THEN Null ELSE Num(10 * i)]] >>

InputTokens == RangeTokens \cup {"1M"}

IdleRange ==
  /\ labels = <<>>
  /\ datasets = <<>>
  /\ range = ""
  /\ result = NoResult
  /\ called = FALSE

IdleCurrency ==
  /\ curRows = <<>>
  /\ curErr = Null
  /\ curRange = "1D"
  /\ curLoad = "pending"

IdleTrade ==
  /\ exp = <<>>
  /\ imp = <<>>
  /\ errExp = Null
  /\ errImp = Null
  /\ expLoad = "pending"
  /\ impLoad = "pending"

\* a request whose response the model leaves open until it arrives
AnyResponse == [kind |-> "any"]

\* a request that will call complete with res.data = data
RowsResponse(data) == [kind |-> "rows", data |-> data]

\* a request that will call error with the argument e
ErrorResponse(e) == [kind |-> "error", e |-> e]

\* the arguments an error callback is called with: none, an error without a
\* message text, an error with one
ErrorArgs == { Undefined, [message |-> EmptyStr], [message |-> Str("Not Found")] }

\* e?.message || fallback
errorMessage(e, fallback) ==
  LET m == IF e = Undefined THEN Undefined ELSE e.message
  IN  IF Truthy(m) THEN m ELSE Str(fallback)

\* a request whose response will be one of the responses in S
SomeResponse(S) == [kind |-> "some", of |-> S]

MacroSources == {"cpi", "bm", "exp", "imp"}

OpenWire == [s \in MacroSources |-> AnyResponse]

\* the res.data the complete callback of source src can be called with
Arriving(src, all) ==
  IF wire[src].kind = "any" THEN all
  ELSE IF wire[src].kind = "some"
    THEN { r.data : r \in { x \in wire[src].of : x.kind = "rows" } }
  ELSE IF wire[src].kind = "rows" THEN {wire[src].data}
  ELSE {}

\* the arguments the error callback of source src can be called with
Failures(src) ==
  IF wire[src].kind = "any" THEN ErrorArgs
  ELSE IF wire[src].kind = "some"
    THEN { r.e : r \in { x \in wire[src].of : x.kind = "error" } }
  ELSE IF wire[src].kind = "error" THEN {wire[src].e}
  ELSE {}

IdleMacro ==
  /\ cpi = <<>>
  /\ bm = <<>>
  /\ errCpi = Null
  /\ errBm = Null
  /\ cpiLoad = "pending"
  /\ bmLoad = "pending"
  /\ wire = OpenWire
  /\ macRange = "10Y"

IdleHome ==
  /\ homeRows = <<>>
  /\ homeErr = Null
  /\ homeLoad = "pending"

IdlePick ==
  /\ pickRow = Undefined
  /\ pickCandidates = << >>
  /\ pickResult = Undefined
  /\ pickCalled = FALSE

IdleTs ==
  /\ tsArg = Undefined
  /\ tsResult = Null
  /\ tsCalled = FALSE

InitRange ==
  /\ tab = "macro"
  /\ tz \in TZOffsets
  /\ labels \in SeqsUpTo(LabelSet, MaxLabels)
  /\ datasets = DatasetsFor(labels)
  /\ range = ""
  /\ result = NoResult
  /\ called = FALSE
  /\ IdleMacro /\ IdleCurrency /\ IdleTrade /\ IdleHome /\ IdlePick /\ IdleTs

CallApplyRange ==
  /\ \E rng \in InputTokens :
       /\ range' = rng
       /\ result' = applyRange(labels, datasets, rng, tz)
  /\ called' = TRUE
  /\ UNCHANGED <<tz, tab, macroVars, pickVars, tsVars, labels, datasets, curVars, tradeVars, homeVars>>

NextRange == CallApplyRange

SpecRange == InitRange /\ [][NextRange]_vars

(***************************************************************************)
(* Specification of the Currency page                                      *)
(***************************************************************************)
\* ts cells of bob_p2p_history.csv: the anchor, the 24h / 7d / 30d
\* boundaries, one hour before each, and a text that is no date
TsSet ==
  { TsStr(2024, 3, 31, 12),
    TsStr(2024, 3, 30, 12), TsStr(2024, 3, 30, 11),
    TsStr(2024, 3, 24, 12), TsStr(2024, 3, 24, 11),
    TsStr(2024, 3, 1, 12),  TsStr(2024, 3, 1, 11),
    Str("n/a") }

\* value cells of one CSV line: all present, partly absent, mostly absent
CurProfiles ==
  { [ mid_BOB_per_USDT |-> Num(7), best_bid |-> Num(6), best_ask |-> Num(8),
      spread_pct |-> Rat(1, 50), effective_spread_pct |-> Rat(3, 100),
      market_width_pct |-> Rat(1, 20), buy_count |-> Num(5), sell_count |-> Num(3),
      depth_imbalance |-> Rat(1, 4), rolling_24h_vol |-> Num(2), rolling_7d_vol |-> Num(9) ],
    [ mid_BOB_per_USDT |-> Null, best_bid |-> Num(6), best_ask |-> Null,
      spread_pct |-> Null, effective_spread_pct |-> Undefined,
      market_width_pct |-> Null, buy_count |-> Num(0), sell_count |-> Null,
      depth_imbalance |-> Null, rolling_24h_vol |-> Null, rolling_7d_vol |-> Num(9) ],
    [ mid_BOB_per_USDT |-> Num(7), best_bid |-> Str("n/a"), best_ask |-> Num(8),
      spread_pct |-> Num(0), effective_spread_pct |-> EmptyStr,
      market_width_pct |-> Undefined, buy_count |-> Null, sell_count |-> Num(3),
      depth_imbalance |-> Num(0), rolling_24h_vol |-> Undefined, rolling_7d_vol |-> Null ] }

CurRow(ts, p) ==
  [ ts |-> ts,
    mid_BOB_per_USDT |-> p.mid_BOB_per_USDT, best_bid |-> p.best_bid,
    best_ask |-> p.best_ask, spread_pct |-> p.spread_pct,
    effective_spread_pct |-> p.effective_spread_pct,
    market_width_pct |-> p.market_width_pct, buy_count |-> p.buy_count,
    sell_count |-> p.sell_count, depth_imbalance |-> p.depth_imbalance,
    rolling_24h_vol |-> p.rolling_24h_vol, rolling_7d_vol |-> p.rolling_7d_vol ]

\* res.data of the currency CSV: lines with and without a ts
CurRawRows == { CurRow(ts, p) : ts \in TsSet \cup {Null}, p \in CurProfiles }

CurRanges == {"1D", "1W", "1M"}

InitCurrency ==
  /\ tab = "currency"
  /\ tz \in TZOffsets
  /\ IdleMacro /\ IdleRange /\ IdleCurrency /\ IdleTrade /\ IdleHome /\ IdlePick /\ IdleTs

\* complete: (res) => setRows((res.data || []).filter(r => r && r.ts))
CurrencyComplete ==
  /\ curLoad = "pending"
  /\ \E data \in SeqsUpTo(CurRawRows, MaxCurRows) :
       curRows' = SelectSeq(data, LAMBDA r : Truthy(r.ts))
  /\ curLoad' = "done"
  /\ UNCHANGED <<tz, tab, macroVars, pickVars, tsVars, rangeVars, curErr, curRange, tradeVars, homeVars>>

\* error: (e) => setErr(e?.message || 'Failed to load CSV')
CurrencyError ==
  /\ curLoad = "pending"
  /\ \E e \in ErrorArgs :
       curErr' = errorMessage(e, "Failed to load CSV")
  /\ curLoad' = "done"
  /\ UNCHANGED <<tz, tab, macroVars, pickVars, tsVars, rangeVars, curRows, curRange, tradeVars, homeVars>>

\* onClick={() => setRange(r)}
CurrencySetRange ==
  /\ \E r \in CurRanges : curRange' = r
  /\ UNCHANGED <<tz, tab, macroVars, pickVars, tsVars, rangeVars, curRows, curErr, curLoad, tradeVars, homeVars>>

NextCurrency == CurrencyComplete \/ CurrencyError \/ CurrencySetRange

SpecCurrency == InitCurrency /\ [][NextCurrency]_vars

\* Papa.parse ends every request with one call of complete or of error
SpecCurrencyLive ==
  SpecCurrency /\ WF_vars(CurrencyComplete \/ CurrencyError)

(***************************************************************************)
(* Specification of the Macro page's trade pipeline                        *)
(***************************************************************************)
TradeDates == { DateStr(2024, 1, 31), DateStr(2024, 2, 29), DateStr(2024, 3, 31) }

\* res.data of exports.csv
ExpRawRows ==
  { [date |-> d, FOB |-> v] : d \in TradeDates \cup {Null}, v \in {Null, Num(9)} }

ImpCells ==
  { <<Undefined, Null>>, <<Null, Num(3)>>, <<Num(4), Num(3)>> }

\* res.data of imports.csv
ImpRawRows ==
  { [date |-> d,
     TotalImportaciones_FOBAjustado_MillonesUSD |-> c[1],
     TotalImportaciones_FOB |-> c[2]] : d \in TradeDates \cup {Null}, c \in ImpCells }

\* the trade pipeline reads neither the clock nor the time zone
InitTrade ==
  /\ tab = "macro"
  /\ tz = 0
  /\ IdleMacro /\ IdleRange /\ IdleCurrency /\ IdleTrade /\ IdleHome /\ IdlePick /\ IdleTs

\* the exports callback also resetting the imports rows (faulty variant for C23)
ExportsComplete_ClearsImports ==
  /\ expLoad = "pending"
  /\ \E data \in Arriving("exp", SeqsUpTo(ExpRawRows, MaxExpRows)) :
       exp' = SelectSeq(data, LAMBDA r : Truthy(r.date))
  /\ imp' = <<>>
  /\ expLoad' = "done"
  /\ UNCHANGED <<tz, tab, macroVars, pickVars, tsVars, rangeVars, curVars, homeVars, errExp, errImp, impLoad>>

\* complete: (res) => setExp((res.data||[]).filter(r => r?.date))
ExportsComplete ==
  /\ expLoad = "pending"
  /\ \E data \in Arriving("exp", SeqsUpTo(ExpRawRows, MaxExpRows)) :
       exp' = SelectSeq(data, LAMBDA r : Truthy(r.date))
  /\ expLoad' = "done"
  /\ UNCHANGED <<tz, tab, macroVars, pickVars, tsVars, rangeVars, curVars, homeVars, imp, errExp, errImp, impLoad>>

\* error: (e) => setErrExp(e?.message || 'Failed to load exports CSV')
ExportsError ==
  /\ expLoad = "pending"
  /\ \E e \in Failures("exp") :
       errExp' = errorMessage(e, "Failed to load exports CSV")
  /\ expLoad' = "done"
  /\ UNCHANGED <<tz, tab, macroVars, pickVars, tsVars, rangeVars, curVars, homeVars, exp, imp, errImp, impLoad>>

\* complete: (res) => setImp((res.data||[]).filter(r => r?.date))
ImportsComplete ==
  /\ impLoad = "pending"
  /\ \E data \in Arriving("imp", SeqsUpTo(ImpRawRows, MaxImpRows)) :
       imp' = SelectSeq(data, LAMBDA r : Truthy(r.date))
  /\ impLoad' = "done"
  /\ UNCHANGED <<tz, tab, macroVars, pickVars, tsVars, rangeVars, curVars, homeVars, exp, errExp, errImp, expLoad>>

\* error: (e) => setErrImp(e?.message || 'Failed to load imports CSV')
ImportsError ==
  /\ impLoad = "pending"
  /\ \E e \in Failures("imp") :
       errImp' = errorMessage(e, "Failed to load imports CSV")
  /\ impLoad' = "done"
  /\ UNCHANGED <<tz, tab, macroVars, pickVars, tsVars, rangeVars, curVars, homeVars, exp, imp, errExp, expLoad>>

NextTrade == ExportsComplete \/ ExportsError \/ ImportsComplete \/ ImportsError

SpecTrade == InitTrade /\ [][NextTrade]_vars

(***************************************************************************)
(* Macro page: inflation (CPI) and monetary-base series                    *)
(***************************************************************************)
cpiDates(c) == [i \in DOMAIN c |-> c[i].date]

\* cpi.map(r => asNum(r?.ipc_base2016 ?? r?.ipc_base2007 ?? null))
ipcMixed(c) ==
  [i \in DOMAIN c |->
     LET v2016 == c[i].ipc_base2016
         v2007 == c[i].ipc_base2007
     IN  asNum(Coalesce(Coalesce(v2016, v2007), Null))]

\* cpi.at(-1) || null (a row is an object, hence truthy)
latestCPI(c) == IF Len(c) = 0 THEN Null ELSE AtLast(c)

\* latestCPI ? (asNum(.ipc_base2016) ?? asNum(.ipc_base2007) ?? null) : null
latestIPC(c) ==
  IF latestCPI(c) # Null
    THEN Coalesce(Coalesce(asNum(latestCPI(c).ipc_base2016),
                           asNum(latestCPI(c).ipc_base2007)), Null)
    ELSE Null

bmDates(b) == [i \in DOMAIN b |-> FieldOf(b[i], "date")]

\* bm.map(r => asNum(pick(r, ['BASE MONETARIA BM','Base Monetaria','BM'])))
BM_TOT(b) ==
  [i \in DOMAIN b |->
     asNum(pick(b[i], <<"BASE MONETARIA BM", "Base Monetaria", "BM">>))]

\* bm.at(-1) || null (a row is an object, hence truthy)
latestBM(b) == IF Len(b) = 0 THEN Null ELSE AtLast(b)

(***************************************************************************)
(* Specification of the Macro page's inflation and monetary-base loaders   *)
(***************************************************************************)
\* res.data of the inflation CSV
CpiRawRows ==
  { [date |-> d, ipc_base2016 |-> a, ipc_base2007 |-> b] :
      d \in {DateStr(2024, 1, 31), Null},
      a \in {Undefined, Null, EmptyStr, Num(110), Str("n/a")},
      b \in {Undefined, Null, Num(250)} }

\* res.data of the monetary-base CSV: the total under either header
BmRawRows ==
  { [k \in {"date", h} |-> IF k = "date" THEN d ELSE v] :
      d \in {DateStr(2024, 1, 31), Null},
      h \in {"BASE MONETARIA BM", "BM"},
      v \in {Null, Num(5)} }

InitIndicators ==
  /\ tab = "macro"
  /\ tz = 0
  /\ IdleMacro /\ IdleRange /\ IdleCurrency /\ IdleTrade /\ IdleHome /\ IdlePick /\ IdleTs

\* complete: (res) => setCpi((res.data||[]).filter(r => r?.date))
CpiComplete ==
  /\ cpiLoad = "pending"
  /\ \E data \in Arriving("cpi", SeqsUpTo(CpiRawRows, MaxCpiRows)) :
       cpi' = SelectSeq(data, LAMBDA r : Truthy(r.date))
  /\ cpiLoad' = "done"
  /\ UNCHANGED <<tz, tab, pickVars, tsVars, rangeVars, curVars, homeVars, tradeVars,
                 bm, errCpi, errBm, bmLoad, wire, macRange>>

\* error: (e) => setErrCpi(e?.message || 'Failed to load inflation CSV')
CpiError ==
  /\ cpiLoad = "pending"
  /\ \E e \in Failures("cpi") :
       errCpi' = errorMessage(e, "Failed to load inflation CSV")
  /\ cpiLoad' = "done"
  /\ UNCHANGED <<tz, tab, pickVars, tsVars, rangeVars, curVars, homeVars, tradeVars,
                 cpi, bm, errBm, bmLoad, wire, macRange>>

\* complete: (res) => setBm((res.data||[]).filter(r => r?.date))
BmComplete ==
  /\ bmLoad = "pending"
  /\ \E data \in Arriving("bm", SeqsUpTo(BmRawRows, MaxBmRows)) :
       bm' = SelectSeq(data, LAMBDA r : Truthy(FieldOf(r, "date")))
  /\ bmLoad' = "done"
  /\ UNCHANGED <<tz, tab, pickVars, tsVars, rangeVars, curVars, homeVars, tradeVars,
                 cpi, errCpi, errBm, cpiLoad, wire, macRange>>

\* error: (e) => setErrBm(e?.message || 'Failed to load base_monetaria CSV')
BmError ==
  /\ bmLoad = "pending"
  /\ \E e \in Failures("bm") :
       errBm' = errorMessage(e, "Failed to load base_monetaria CSV")
  /\ bmLoad' = "done"
  /\ UNCHANGED <<tz, tab, pickVars, tsVars, rangeVars, curVars, homeVars, tradeVars,
                 cpi, bm, errCpi, cpiLoad, wire, macRange>>

NextIndicators == CpiComplete \/ CpiError \/ BmComplete \/ BmError

SpecIndicators == InitIndicators /\ [][NextIndicators]_vars

(***************************************************************************)
(* Specification of the Macro page's four loaders, racing                  *)
(***************************************************************************)
\* the four requests are sent on mount and each has one response in flight:
\* an error, an empty table, or a table of a few rows
CpiWire ==
  { ErrorResponse([message |-> Str("Not Found")]), RowsResponse(<<>>),
    RowsResponse(<< [date |-> DateStr(2024, 1, 31), ipc_base2016 |-> Num(110), ipc_base2007 |-> Null],
                    [date |-> Null, ipc_base2016 |-> Null, ipc_base2007 |-> Num(250)] >>) }

BmWire ==
  { ErrorResponse(Undefined), RowsResponse(<<>>),
    RowsResponse(<< [date |-> DateStr(2024, 1, 31), BM |-> Num(5)] >>) }

ExpWire ==
  { ErrorResponse([message |-> EmptyStr]), RowsResponse(<<>>),
    RowsResponse(<< [date |-> DateStr(2024, 1, 31), FOB |-> Num(9)],
                    [date |-> Null, FOB |-> Num(9)],
                    [date |-> DateStr(2024, 2, 29), FOB |-> Num(9)] >>),
    RowsResponse(<< [date |-> DateStr(2013, 5, 31), FOB |-> Num(9)],
                    [date |-> DateStr(2018, 5, 31), FOB |-> Null],
                    [date |-> DateStr(2023, 6, 15), FOB |-> Num(9)] >>),
    RowsResponse(<< [date |-> DateStr(2022, 12, 31), FOB |-> Num(9)],
                    [date |-> DateStr(2023, 1, 1), FOB |-> Num(9)],
                    [date |-> Str("n/a"), FOB |-> Num(9)] >>) }

ImpWire ==
  { ErrorResponse([message |-> Str("Not Found")]), RowsResponse(<<>>),
    RowsResponse(<< [date |-> DateStr(2023, 6, 15),
                     TotalImportaciones_FOBAjustado_MillonesUSD |-> Num(4),
                     TotalImportaciones_FOB |-> Num(3)],
                    [date |-> DateStr(2013, 5, 31),
                     TotalImportaciones_FOBAjustado_MillonesUSD |-> Null,
                     TotalImportaciones_FOB |-> Num(3)] >>),
    RowsResponse(<< [date |-> DateStr(2024, 2, 29),
                     TotalImportaciones_FOBAjustado_MillonesUSD |-> Num(4),
                     TotalImportaciones_FOB |-> Num(3)],
                    [date |-> DateStr(2024, 1, 31),
                     TotalImportaciones_FOBAjustado_MillonesUSD |-> Null,
                     TotalImportaciones_FOB |-> Num(3)] >>) }

MacroWires ==
  { [s \in MacroSources |->
       CASE s = "cpi" -> c [] s = "bm" -> b [] s = "exp" -> e [] s = "imp" -> m] :
      c \in CpiWire, b \in BmWire, e \in ExpWire, m \in ImpWire }

\* the requests of a page mounted by the tab bar: each is answered by one of
\* the responses above
MountedWire ==
  [s \in MacroSources |->
     SomeResponse(CASE s = "cpi" -> CpiWire [] s = "bm" -> BmWire
                    [] s = "exp" -> ExpWire [] s = "imp" -> ImpWire)]

InitMacro ==
  /\ tab = "macro"
  /\ tz = 0
  /\ wire \in MacroWires
  /\ cpi = <<>> /\ bm = <<>> /\ errCpi = Null /\ errBm = Null
  /\ cpiLoad = "pending" /\ bmLoad = "pending"
  /\ macRange = "10Y"
  /\ IdleRange /\ IdleCurrency /\ IdleTrade /\ IdleHome /\ IdlePick /\ IdleTs

\* onClick={() => setRange(r)}
MacroSetRange ==
  /\ \E r \in RangeTokens : macRange' = r
  /\ UNCHANGED <<tz, tab, pickVars, tsVars, rangeVars, curVars, homeVars, tradeVars,
                 cpi, bm, errCpi, errBm, cpiLoad, bmLoad, wire>>

NextMacro == NextIndicators \/ NextTrade

SpecMacro == InitMacro /\ [][NextMacro]_vars

(***************************************************************************)
(* Specification of the Home page's currency snapshot                      *)
(***************************************************************************)
BidCells == { Null, Undefined, EmptyStr, Str("n/a"), Num(6), Num(7) }
AskCells == { Null, Undefined, EmptyStr, Num(7), Num(8) }

\* res.data of the currency CSV as the Home page reads it
HomeRawRows ==
  { [ts |-> ts, best_bid |-> b, best_ask |-> a] :
      ts \in {TsStr(2024, 3, 31, 12), Null}, b \in BidCells, a \in AskCells }

\* bid / ask cells of a long CSV: mids 7, 13/2 and 0, an absent bid, a bid
\* that is no number
SparkCells ==
  { << Num(6), Num(8) >>, << Num(6), Num(7) >>, << Num(0), Num(0) >>,
    << Null, Num(7) >>, << Str("n/a"), Num(7) >> }

\* a CSV of n hourly rows whose bid / ask cells repeat the cycle cyc
CycleRows(n, cyc) ==
  [i \in 1..n |->
     [ts       |-> TsStr(2024, 3, 1 + ((i - 1) \div 24), (i - 1) % 24),
      best_bid |-> cyc[((i - 1) % Len(cyc)) + 1][1],
      best_ask |-> cyc[((i - 1) % Len(cyc)) + 1][2]]]

\* CSVs around the size of the spark window
LongHomeData ==
  { CycleRows(n, cyc) :
      n \in (SparkWindow - 1)..(SparkWindow + MaxOverWindow),
      cyc \in SeqsUpTo(SparkCells, MaxCycle) \ { << >> } }

\* res.data: short CSVs over all cells, long CSVs over repeating cells
HomeData == SeqsUpTo(HomeRawRows, MaxHomeRows) \cup LongHomeData

\* the mid computation reads neither the clock nor the time zone
InitHome ==
  /\ tab = "home"
  /\ tz = 0
  /\ IdleMacro /\ IdleRange /\ IdleCurrency /\ IdleTrade /\ IdleHome /\ IdlePick /\ IdleTs

\* complete: (res) => setRows((res.data || []).filter(r => r && r.ts))
HomeComplete ==
  /\ homeLoad = "pending"
  /\ \E data \in HomeData :
       homeRows' = SelectSeq(data, LAMBDA r : Truthy(r.ts))
  /\ homeLoad' = "done"
  /\ UNCHANGED <<tz, tab, macroVars, pickVars, tsVars, rangeVars, curVars, tradeVars, homeErr>>

\* error: (e) => setCurErr(e?.message || 'Failed to load currency CSV')
HomeError ==
  /\ homeLoad = "pending"
  /\ \E e \in ErrorArgs :
       homeErr' = errorMessage(e, "Failed to load currency CSV")
  /\ homeLoad' = "done"
  /\ UNCHANGED <<tz, tab, macroVars, pickVars, tsVars, rangeVars, curVars, tradeVars, homeRows>>

NextHome == HomeComplete \/ HomeError

SpecHome == InitHome /\ [][NextHome]_vars

(***************************************************************************)
(* Specification of the pages behind the tab bar                           *)
(***************************************************************************)
\* const [tab, setTab] = useState('home'); the tab bar renders the page of
\* the tab and no other, so a page's handlers run only while it is shown
Tabs == {"home", "currency", "news", "macro"}

InitPages ==
  /\ tab = "home"
  /\ tz \in TZOffsets
  /\ IdleMacro /\ IdleRange /\ IdleCurrency /\ IdleTrade /\ IdleHome /\ IdlePick /\ IdleTs

\* onNav(key): setTab(key) unmounts the page shown and mounts the page of
\* key, whose state is constructed anew and whose requests are sent anew
Nav ==
  /\ \E key \in Tabs \ {tab} :
       /\ tab' = key
       /\ wire' = IF key = "macro" THEN MountedWire ELSE OpenWire
  /\ curRows' = <<>> /\ curErr' = Null /\ curRange' = "1D" /\ curLoad' = "pending"
  /\ exp' = <<>> /\ imp' = <<>> /\ errExp' = Null /\ errImp' = Null
  /\ expLoad' = "pending" /\ impLoad' = "pending"
  /\ cpi' = <<>> /\ bm' = <<>> /\ errCpi' = Null /\ errBm' = Null
  /\ cpiLoad' = "pending" /\ bmLoad' = "pending"
  /\ macRange' = "10Y"
  /\ homeRows' = <<>> /\ homeErr' = Null /\ homeLoad' = "pending"
  /\ UNCHANGED <<tz, rangeVars, pickVars, tsVars>>

HomeMounted == tab = "home" /\ NextHome

CurrencyMounted == tab = "currency" /\ NextCurrency

MacroMounted == tab = "macro" /\ (NextMacro \/ MacroSetRange)

NextPages == HomeMounted \/ CurrencyMounted \/ MacroMounted \/ Nav

SpecPages == InitPages /\ [][NextPages]_vars

(***************************************************************************)
(* Specification of pick as a function of its arguments                    *)
(***************************************************************************)
\* column names of base_monetaria.csv the pages look the net reserves up by,
\* and one name no row of the model carries
PickKeys ==
  { "Reservas Internacionales Netas RIN = RIB - OECP", "RIN",
    "Reservas Internacionales Netas (RIN)" }

PickNames == PickKeys \cup { "RIB" }

PickCells == { Null, EmptyStr, Num(5), Num(9) }

\* rows carrying any subset of the columns, and the absent row
PickRows ==
  UNION { [S -> PickCells] : S \in SUBSET PickKeys } \cup { Null, Undefined }

InitPick ==
  /\ tab = "macro"
  /\ tz = 0
  /\ pickRow \in PickRows
  /\ pickCandidates \in SeqsUpTo(PickNames, MaxCandidates)
  /\ pickResult = Undefined
  /\ pickCalled = FALSE
  /\ IdleMacro /\ IdleRange /\ IdleCurrency /\ IdleTrade /\ IdleHome /\ IdleTs

CallPick ==
  /\ ~pickCalled
  /\ pickResult' = pick(pickRow, pickCandidates)
  /\ pickCalled' = TRUE
  /\ UNCHANGED <<tz, tab, macroVars, rangeVars, curVars, tradeVars, homeVars, tsVars,
                 pickRow, pickCandidates>>

NextPick == CallPick

SpecPick == InitPick /\ [][NextPick]_vars

(***************************************************************************)
(* Specification of parseTsToDate as a function of its argument            *)
(***************************************************************************)
\* all-digit cells around the threshold 10^12 (10^12 - 1, 10^12, 10^12 + 1),
\* small and large ones, one past the largest time value; as number and as text
DigitInputs ==
  { Digits(num, Big(l2, l1, l0)) :
      num \in BOOLEAN, l2 \in {0, 1, 2, 9000},
      l1 \in {0, 1, 999999}, l0 \in {0, 1, 999999} }

\* texts and absent cells
TextInputs ==
  { TsStr(2024, 3, 1, 13), DateStr(2024, 3, 1), Str("n/a"), EmptyStr,
    Null, Undefined }

InitTs ==
  /\ tab = "home"
  /\ tz \in TZOffsets
  /\ tsArg \in DigitInputs \cup TextInputs
  /\ tsResult = Null
  /\ tsCalled = FALSE
  /\ IdleMacro /\ IdleRange /\ IdleCurrency /\ IdleTrade /\ IdleHome /\ IdlePick

CallParseTsToDate ==
  /\ ~tsCalled
  /\ tsResult' = parseTsToDate(tsArg, tz)
  /\ tsCalled' = TRUE
  /\ UNCHANGED <<tz, tab, macroVars, rangeVars, curVars, tradeVars, homeVars, pickVars, tsArg>>

NextTs == CallParseTsToDate

SpecTs == InitTs /\ [][NextTs]_vars

(***************************************************************************)
(* Properties                                                              *)
(***************************************************************************)
\* a source cell that carries no value
Absent(c) == c = Null \/ c = Undefined \/ c = EmptyStr

\* the finite number held by a cell that is a number
IsNumber(c) == c.t = "number"

\* ---- Currency page --------------------------------------------------------
curFiltered == filtered(curRows, curRange, tz)

\* the CSV column each chart dataset is drawn from
ColumnOf(label) ==
  CASE label = "Mid (BOB/USDT)"     -> "mid_BOB_per_USDT"
    [] label = "Best Bid"           -> "best_bid"
    [] label = "Best Ask"           -> "best_ask"
    [] label = "Spread % (best)"    -> "spread_pct"
    [] label = "Effective Spread %" -> "effective_spread_pct"
    [] label = "Market Width %"     -> "market_width_pct"
    [] label = "Buy Count"          -> "buy_count"
    [] label = "Sell Count"         -> "sell_count"
    [] label = "Depth Imbalance"    -> "depth_imbalance"
    [] label = "Rolling 24h Vol"    -> "rolling_24h_vol"
    [] label = "Rolling 7d Vol"     -> "rolling_7d_vol"

curCharts ==
  << priceChart(curRows, curRange, tz), spreadsChart(curRows, curRange, tz),
     liquidityChart(curRows, curRange, tz), volChart(curRows, curRange, tz) >>

\* C1: in every dataset handed to a Currency chart, a position whose source
\* cell is absent (null / undefined / empty) holds null, never 0.
C1_AbsentCellStaysNull ==
  \A c \in DOMAIN curCharts :
    \A j \in DOMAIN curCharts[c].datasets :
      LET ds == curCharts[c].datasets[j]
      IN  \A k \in DOMAIN ds.data :
            Absent(curFiltered[k][ColumnOf(ds.label)]) => ds.data[k] = Null

\* C7 (Currency part): when every ts of the loaded rows fails to parse, the
\* window filter returns the rows unchanged.
C7_UnparseableIsNoOp ==
  (curRows # << >> /\ \A i \in DOMAIN curRows : ~parseTs(curRows[i].ts, tz).valid)
    => /\ curFiltered = curRows
       /\ curLabels(curRows, curRange, tz) = [i \in DOMAIN curRows |-> curRows[i].ts]

\* wall-clock hours of a "YYYY-MM-DD HH:00:00" text
WallHours(ts) == DaysFromCivil(ts.y, ts.m, ts.d) * 24 + ts.h

WindowHours(rng) ==
  CASE rng = "1D" -> 24
    [] rng = "1W" -> 7 * 24
    [] rng = "1M" -> 30 * 24

\* C8: with a last row whose ts parses (the anchor), the 1D / 1W / 1M filter
\* keeps exactly the rows whose ts parses and is >= anchor - 24h / 7*24h /
\* 30*24h, in row order: the boundary row is kept, an unparseable ts dropped.
C8_WindowKeepsFromCutoff ==
  (curRows # << >> /\ AtLast(curRows).ts.t = "tsstr") =>
     curFiltered =
       SelectSeq(curRows, LAMBDA r :
         /\ r.ts.t = "tsstr"
         /\ WallHours(r.ts) >= WallHours(AtLast(curRows).ts) - WindowHours(curRange))

\* C8 witness: a row exactly on the 7-day boundary is kept next to the anchor
C8_Witness ==
  /\ curRange = "1W"
  /\ Len(curRows) = 2
  /\ curRows[2].ts = TsStr(2024, 3, 31, 12)
  /\ curRows[1].ts = TsStr(2024, 3, 24, 12)
  /\ curFiltered = curRows

\* ---- Home page ------------------------------------------------------------
\* C2: midFromBA is (best_bid + best_ask) / 2 when both are numbers and null
\* when either is absent or the row itself is absent.
C2_MidOfBidAsk ==
  /\ midFromBA(Null) = Null
  /\ midFromBA(Undefined) = Null
  /\ \A i \in DOMAIN homeRows :
       LET r == homeRows[i]
           m == computedMids(homeRows)[i]
       IN  /\ (IsNumber(r.best_bid) /\ IsNumber(r.best_ask)) =>
                 m = Rat(r.best_bid.n * r.best_ask.d + r.best_ask.n * r.best_bid.d,
                         2 * r.best_bid.d * r.best_ask.d)
           /\ (Absent(r.best_bid) \/ Absent(r.best_ask)) => m = Null

\* C2 witness: one row with both quotes (mid 6.5) and one row without a bid
C2_Witness ==
  /\ Len(homeRows) = 2
  /\ homeRows[1].best_bid = Num(6) /\ homeRows[1].best_ask = Num(7)
  /\ homeRows[2].best_bid = EmptyStr /\ homeRows[2].best_ask = Num(7)
  /\ computedMids(homeRows) = << Rat(13, 2), Null >>

\* ---- Macro page: trade ----------------------------------------------------
\* C3: importsForTrade is a left join on exact date equality: one position
\* per exports row, holding the coerced value of an imports row of the same
\* date, and null when no imports row has that date.
C3_LeftJoinExactDate ==
  LET ift == importsForTrade(exp, imp)
  IN  /\ Len(ift) = Len(exp)
      /\ \A i \in DOMAIN exp :
           LET matches == { j \in DOMAIN imp : imp[j].date = exp[i].date }
           IN  /\ matches = {} => ift[i] = Null
               /\ matches # {} => \E j \in matches : ift[i] = importValue(imp[j])

\* C3 witness: exports [d1,d2,d3] against imports [d1,d3] gives [v1,null,v3]
C3_Witness ==
  /\ expDates(exp) = << DateStr(2024, 1, 31), DateStr(2024, 2, 29), DateStr(2024, 3, 31) >>
  /\ Len(imp) = 2
  /\ imp[1].date = DateStr(2024, 1, 31) /\ imp[2].date = DateStr(2024, 3, 31)
  /\ importsForTrade(exp, imp) = << Num(4), Null, Num(3) >>

\* C4: tradeBalance[i] is the exports FOB of row i minus the import value of
\* an imports row carrying the same date, and null when either is absent.
C4_TradeBalanceAligned ==
  LET tb == tradeBalance(exp, imp)
  IN  /\ Len(tb) = Len(exp)
      /\ \A i \in DOMAIN exp :
           LET x       == asNum(exp[i].FOB)
               matches == { j \in DOMAIN imp : imp[j].date = exp[i].date }
           IN  /\ (x = Null \/ importsForTrade(exp, imp)[i] = Null) => tb[i] = Null
               /\ (\A j \in matches : importValue(imp[j]) = Null) => tb[i] = Null
               /\ tb[i] # Null =>
                    \E j \in matches :
                       /\ IsNumber(x) /\ IsNumber(importValue(imp[j]))
                       /\ tb[i] = Rat(x.n * importValue(imp[j]).d
                                        - importValue(imp[j]).n * x.d,
                                      x.d * importValue(imp[j]).d)

\* C4 witness: the only imports row carries the date of the second exports
\* row, so the balance is null at position 1 and 9 - 4 at position 2
C4_Witness ==
  /\ Len(exp) = 2 /\ Len(imp) = 1
  /\ exp[1].FOB = Num(9) /\ exp[2].FOB = Num(9)
  /\ imp[1].date = exp[2].date /\ exp[1].date # exp[2].date
  /\ tradeBalance(exp, imp) = << Null, Num(5) >>

\* C5: whenever the latest trade balance is defined, the exports row and the
\* imports row it is computed from carry the same date.
C5_LatestBalanceSameDate ==
  latestTradeBalance(exp, imp) # Null =>
     latestRow(exp).date = latestRow(imp).date

\* ---- Macro page: applyRange ----------------------------------------------
\* the last non-absent label
anchorLabel == labels[LastTruthyIdx(labels, Len(labels))]

hasAnchor ==
  /\ LastTruthyIdx(labels, Len(labels)) >= 1
  /\ anchorLabel.t = "datestr"

\* the labels that are calendar dates on or after y-m-d, in order
LabelsFrom(y, m, d) ==
  SelectSeq(labels, LAMBDA l :
    /\ l.t = "datestr"
    /\ DaysFromCivil(l.y, l.m, l.d) >= DaysFromCivil(y, m, d))

\* C6: for YTD the boundary is January 1 of the year of the last non-absent
\* label: exactly the date labels on or after it are returned (last label
\* 2023-06-15 gives boundary 2023-01-01).
C6_YtdFromJanuaryFirst ==
  (called /\ range = "YTD" /\ hasAnchor) =>
     result.labels = LabelsFrom(anchorLabel.y, 1, 1)

\* C7 (applyRange part): when no label parses as a date, applyRange returns
\* its arguments for every token.
C7_ApplyRangeNoOp ==
  (called /\ \A i \in DOMAIN labels : ~parseIsoDate(labels[i], tz).valid) =>
     result = [labels |-> labels, datasets |-> datasets]

\* C9: applyRange(labels, datasets, 'ALL') returns exactly the labels and
\* datasets it was given, absent and unparseable labels included.
C9_AllIsIdentity ==
  (called /\ range = "ALL") =>
     /\ result.labels = labels
     /\ result.datasets = datasets

\* C9 witness: 'ALL' applied to labels holding an absent label, a text that
\* is no date and a date ten years before the anchor's window
C9_Witness ==
  /\ called /\ range = "ALL"
  /\ labels = << DateStr(2013, 5, 31), Null, Str("n/a") >>
  /\ result.labels = labels

\* years a token reaches back
YearsBack(rng) == IF rng = "5Y" THEN 5 ELSE 10

\* C10: for 5Y / 10Y the boundary is the first day of the anchor label's
\* calendar month, 5 / 10 years earlier; exactly the date labels on or after
\* the boundary are returned, the boundary date included.
C10_YearsBackFromAnchorMonth ==
  (called /\ range \in {"5Y", "10Y"} /\ hasAnchor) =>
     result.labels = LabelsFrom(anchorLabel.y - YearsBack(range), anchorLabel.m, 1)


\* ---- Series invariant -----------------------------------------------------
\* the members of a finite set of integers in increasing order
RECURSIVE SortedSeq(_)
SortedSeq(S) ==
  IF S = {} THEN << >>
  ELSE LET lo == CHOOSE x \in S : \A y \in S : x <= y
       IN  << lo >> \o SortedSeq(S \ {lo})

\* chart is a Series over the source rows: every data array is as long as
\* the labels, and position k of the labels and of every data array comes
\* from one source row keep[k], the rows taken in source order
SeriesOver(chart, srcLabels, srcData) ==
  LET ls   == chart.labels
      dss  == chart.datasets
      from == srcLabels
      vals == srcData
  IN  /\ \A j \in DOMAIN dss : Len(dss[j].data) = Len(ls)
      /\ \E S \in SUBSET (DOMAIN from) :
           LET keep == SortedSeq(S)
           IN  /\ Len(keep) = Len(ls)
               /\ \A k \in DOMAIN keep :
                    /\ ls[k] = from[keep[k]]
                    /\ \A j \in DOMAIN dss : dss[j].data[k] = vals[j][keep[k]]

\* the value a Currency chart shows for a row: the coerced cell, in percent
\* for the spreads chart (the second chart)
CurChartValue(c, label, row) ==
  IF c = 2 THEN times100(asNum(row[ColumnOf(label)]))
  ELSE asNum(row[ColumnOf(label)])

\* C11: every chart data object is a Series over its source rows: each
\* dataset's data is as long as the labels, and position k of every dataset
\* holds the value of the source row label k comes from, in source row order.
\* Checked for the two trade charts of the Macro page (the output of
\* applyRange over the aligned trade series, under the range selected), for
\* the four Currency charts after the window filter, and for the aligned
\* trade series themselves.
C11_SeriesInvariant ==
  /\ LET dates == tradeDates(exp)
         flows == tradeFlowsData(exp, imp, macRange, tz)
         bal   == tradeBalanceData(exp, imp, macRange, tz)
     IN  /\ SeriesOver(flows, dates, << expFOB(exp), importsForTrade(exp, imp) >>)
         /\ SeriesOver(bal, dates, << tradeBalance(exp, imp) >>)
  /\ LET charts == curCharts
         srcTs  == [i \in DOMAIN curRows |-> curRows[i].ts]
     IN  \A c \in DOMAIN charts :
           LET ch  == charts[c]
               src == [j \in DOMAIN ch.datasets |->
                         [i \in DOMAIN curRows |->
                            CurChartValue(c, ch.datasets[j].label, curRows[i])]]
           IN  SeriesOver(ch, srcTs, src)
  /\ LET dates == tradeDates(exp)
         xs    == expFOB(exp)
         ms    == importsForTrade(exp, imp)
         tb    == tradeBalance(exp, imp)
     IN  /\ Len(xs) = Len(dates) /\ Len(ms) = Len(dates) /\ Len(tb) = Len(dates)
         /\ \A i \in DOMAIN exp :
              dates[i] = exp[i].date /\ xs[i] = asNum(exp[i].FOB)

\* C11 witness: on the Macro page 10Y drops the first of three trade dates,
\* and both datasets drop their first value with it
C11_Witness ==
  /\ tab = "macro" /\ macRange = "10Y" /\ tz = 0
  /\ tradeDates(exp) = << DateStr(2013, 5, 31), DateStr(2018, 5, 31), DateStr(2023, 6, 15) >>
  /\ Len(imp) = 2 /\ imp[1].date = DateStr(2023, 6, 15)
  /\ LET flows == tradeFlowsData(exp, imp, macRange, tz)
     IN  /\ flows.labels = << DateStr(2018, 5, 31), DateStr(2023, 6, 15) >>
         /\ flows.datasets[1].data = << Null, Num(9) >>
         /\ flows.datasets[2].data = << Null, Num(4) >>


\* ---- Home page: spark annotations ------------------------------------------
\* p is the window's number at position p.i that no other number is below
\* (above, for the maximum), the first such position
IsFirstExtremum(pair, window, below) ==
  LET p == pair
      w == window
  IN  /\ p # Null
      /\ p.i + 1 \in DOMAIN w
      /\ IsNumber(p.v)
      /\ p.v = w[p.i + 1]
      /\ \A k \in DOMAIN w :
           IsNumber(w[k]) =>
             /\ IF below THEN ~JsLess(w[k], p.v) ELSE ~JsLess(p.v, w[k])
             /\ (w[k] = p.v) => p.i + 1 <= k

\* C12: whenever the spark window (the last 48 mids) holds a number, minPair
\* is the position and value of its smallest number and maxPair of its
\* largest, the first occurrence on ties; no other entry is ever selected.
C12_ExtremaOfDefined ==
  LET w  == sparkSlice(homeRows)
      mn == minPair(homeRows)
      mx == maxPair(homeRows)
  IN  (\E k \in DOMAIN w : IsNumber(w[k])) =>
         /\ IsFirstExtremum(mn, w, TRUE)
         /\ IsFirstExtremum(mx, w, FALSE)


\* C13: whenever the spark window holds a value other than null, lastMid is
\* the last such value of the window (the most recent earlier one when the
\* final positions are null) and the 'last' mark is drawn with it.
C13_LastIsLastDefined ==
  LET w    == sparkSlice(homeRows)
      l    == lastMid(homeRows)
      mark == annotateSpark(homeRows).last
      def  == { k \in DOMAIN w : ~IsNullish(w[k]) }
  IN  def # {} =>
        LET kmax == CHOOSE k \in def : \A j \in def : j <= k
        IN  /\ l = w[kmax]
            /\ Len(mark) = 1
            /\ mark[1].v = w[kmax]

\* C14: when the spark window holds no number (every position is null or
\* not-a-number, the empty window included), minPair, maxPair and lastMid
\* are absent and no mark is drawn.
C14_NothingDefinedNothingDrawn ==
  LET w     == sparkSlice(homeRows)
      marks == annotateSpark(homeRows)
  IN  (\A k \in DOMAIN w : ~IsNumber(w[k])) =>
        /\ minPair(homeRows) = Null
        /\ maxPair(homeRows) = Null
        /\ IsNullish(lastMid(homeRows))
        /\ marks.min = << >>
        /\ marks.max = << >>
        /\ marks.last = << >>

\* ---- Home page: change of the mid -------------------------------------------
\* C19: with l the mid of the last row and p the mid of the row before it,
\* dAbs = l - p and dPct = (l - p) / p; both are null when either mid is null
\* or there is no row before the last, and dPct is null when p is 0.
C19_DeltaOfLastTwoMids ==
  LET n  == Len(homeRows)
      da == dAbs(homeRows)
      dp == dPct(homeRows)
  IN  /\ n < 2 => (da = Null /\ dp = Null)
      /\ n >= 2 =>
           LET l == midFromBA(homeRows[n])
               p == midFromBA(homeRows[n - 1])
           IN  /\ (l = Null \/ p = Null) => (da = Null /\ dp = Null)
               /\ (IsNumber(l) /\ IsNumber(p)) =>
                    /\ da = Rat(l.n * p.d - p.n * l.d, l.d * p.d)
                    /\ p.n = 0 => dp = Null
                    /\ p.n # 0 =>
                         dp = Rat((l.n * p.d - p.n * l.d) * p.d, l.d * p.d * p.n)

\* C19 witness: mids 13/2 then 7 give dAbs = 1/2 and dPct = 1/13
C19_Witness ==
  /\ Len(homeRows) = 2
  /\ computedMids(homeRows) = << Rat(13, 2), Num(7) >>
  /\ dAbs(homeRows) = Rat(1, 2)
  /\ dPct(homeRows) = Rat(1, 13)


\* ---- KPI texts ----------------------------------------------------------------
\* a cell without a usable value: absent, or a text that is no number
NoValue(c) ==
  \/ Absent(c)
  \/ c.t \in {"datestr", "tsstr"}
  \/ (c.t = "string" /\ StringToNumber(c.s) = NaN)

\* C15: a KPI of the Home snapshot whose value is null, undefined, an empty
\* string or an unparseable cell is shown as '—': the raw best_bid / best_ask
\* cells handed to fmt as well as the computed mid and its changes.
C15_AbsentShownAsSentinel ==
  homeRows # << >> =>
    LET latest == AtLast(homeRows)
        kpis   == homeKpis(homeRows)
    IN  /\ NoValue(latest.best_bid) => kpis.bid = NoData
        /\ NoValue(latest.best_ask) => kpis.ask = NoData
        /\ kpis.spread = NoData
        /\ IsNullish(computedLatestMid(homeRows)) => kpis.mid = NoData
        /\ IsNullish(dAbs(homeRows)) => kpis.dAbs = NoData
        /\ IsNullish(dPct(homeRows)) => kpis.dPct = NoData
        /\ \A x \in {Null, Undefined, EmptyStr, Str("n/a")} : \A d \in 0..4 :
             fmt(x, d) = NoData /\ pct(x, d) = NoData


\* ---- pick ---------------------------------------------------------------------
\* positions of the candidates that are columns of the row
PresentCandidates ==
  IF pickRow = Null \/ pickRow = Undefined THEN {}
  ELSE { i \in DOMAIN pickCandidates : pickCandidates[i] \in DOMAIN pickRow }

\* C16: pick returns the cell under the first candidate, in candidate order,
\* that is a column of the row, whatever that cell holds ('' or null too) and
\* whatever later candidates hold.
C16_FirstPresentCandidate ==
  (pickCalled /\ PresentCandidates # {}) =>
     LET first == CHOOSE i \in PresentCandidates : \A j \in PresentCandidates : i <= j
     IN  pickResult = pickRow[pickCandidates[first]]

\* C16 witness: pick({RIN: 5, 'Reservas ... RIN = RIB - OECP': 9},
\* ['Reservas ... RIN = RIB - OECP', 'RIN']) = 9
C16_Witness ==
  /\ pickCalled
  /\ pickRow \notin {Null, Undefined}
  /\ DOMAIN pickRow = { "RIN", "Reservas Internacionales Netas RIN = RIB - OECP" }
  /\ pickRow["RIN"] = Num(5)
  /\ pickRow["Reservas Internacionales Netas RIN = RIB - OECP"] = Num(9)
  /\ pickCandidates = << "Reservas Internacionales Netas RIN = RIB - OECP", "RIN" >>
  /\ pickResult = Num(9)

\* C17: when the row is absent, the candidate list empty or no candidate a
\* column of the row, pick returns undefined and asNum of it is null.
C17_NoCandidateIsUndefined ==
  (pickCalled /\ PresentCandidates = {}) =>
     /\ pickResult = Undefined
     /\ asNum(pickResult) = Null

\* C17 witness: a row with the column RIN only, looked up by the name RIB
C17_Witness ==
  /\ pickCalled
  /\ pickRow \notin {Null, Undefined}
  /\ DOMAIN pickRow = { "RIN" }
  /\ pickCandidates = << "RIB" >>
  /\ pickResult = Undefined


\* ---- asNum --------------------------------------------------------------------
\* C18: asNum gives null for an absent cell, an empty text and a text that is
\* no number, and the number otherwise; so no element of computedMids is NaN.
C18_AsNumNeverNaN ==
  \A i \in DOMAIN homeRows :
    /\ \A f \in {"best_bid", "best_ask"} :
         LET c == homeRows[i][f]
         IN  /\ NoValue(c) => asNum(c) = Null
             /\ ~NoValue(c) => IsNumber(asNum(c))
    /\ computedMids(homeRows)[i] # NaN

\* ---- parseTsToDate ------------------------------------------------------------
\* C20: an all-digit ts of value n is read as epoch seconds when n < 10^12
\* and as epoch milliseconds otherwise (so 10^12 itself is milliseconds); a
\* ts that gives no valid date returns null.
C20_SecondsBelowTrillion ==
  /\ (tsCalled /\ tsArg.t = "digits" /\ Truthy(tsArg)) =>
       LET n  == tsArg.n
           ms == IF n.l2 = 0 THEN BigTimes1000(n) ELSE n
       IN  tsResult = IF IsTimeValue(ms) THEN DateOfMs(ms) ELSE Null
  /\ (tsCalled /\ tsArg \in {Str("n/a"), EmptyStr, Null, Undefined}) =>
       tsResult = Null


\* C21: on every CPI row the level is the base-2016 value when that is
\* defined, else the base-2007 value when that is defined, else no value;
\* the per-row series ipcMixed and the latest-row KPI latestIPC agree on the
\* latest row, rows whose base-2016 cell is the empty string included.
cpiLevel(r) ==
  IF ~IsNullish(asNum(r.ipc_base2016)) THEN asNum(r.ipc_base2016)
  ELSE IF ~IsNullish(asNum(r.ipc_base2007)) THEN asNum(r.ipc_base2007)
  ELSE Null

C21_CpiBasePrecedence ==
  Len(cpi) > 0 =>
    /\ \A i \in DOMAIN cpi : ipcMixed(cpi)[i] = cpiLevel(cpi[i])
    /\ latestIPC(cpi) = cpiLevel(cpi[Len(cpi)])
    /\ ipcMixed(cpi)[Len(cpi)] = latestIPC(cpi)


\* C22: when the exports or the imports request ends in its error callback,
\* the failed table's row list is still empty and its error is recorded, the
\* latest trade balance is no value, no position of the trade-balance series
\* holds a value, and the series and latest KPI of the table that did load
\* are still those of its rows.
FailedExports == expLoad = "done" /\ errExp # Null

FailedImports == impLoad = "done" /\ errImp # Null

C22_FetchFailureDegrades ==
  LET bal == tradeBalance(exp, imp)
  IN  /\ FailedExports => exp = <<>> /\ Truthy(errExp)
      /\ FailedImports => imp = <<>> /\ Truthy(errImp)
      /\ FailedExports \/ FailedImports =>
            /\ latestTradeBalance(exp, imp) = Null
            /\ \A i \in DOMAIN bal : bal[i] = Null
            /\ Len(bal) = Len(exp)
            /\ Len(expFOB(exp)) = Len(exp)
            /\ Len(impFOBAdj(imp)) = Len(imp)
            /\ Len(exp) > 0 => latestExportsFOB(exp) = expFOB(exp)[Len(exp)]
            /\ Len(imp) > 0 => latestImportsFOBAdj(imp) = impFOBAdj(imp)[Len(imp)]

\* imports failed while the exports that loaded carry a value in every row
C22_Witness ==
  /\ FailedImports
  /\ expLoad = "done" /\ errExp = Null
  /\ Len(exp) = MaxExpRows
  /\ \A i \in DOMAIN exp : IsNumber(expFOB(exp)[i])
  /\ latestExportsFOB(exp) = Num(9)


\* C23: the four loaders impose no order: whatever the order in which the
\* CPI, monetary-base, exports and imports callbacks run, a source whose
\* callback has not run holds its initial rows and error, a source whose
\* callback has run holds exactly the rows or the error its own response
\* delivered, and so the derived state once all four have run is the one
\* determined by the four responses.
DeliveredRows(src) ==
  IF wire[src].kind = "rows"
    THEN SelectSeq(wire[src].data, LAMBDA r : Truthy(FieldOf(r, "date")))
    ELSE <<>>

DeliveredError(src, fallback) ==
  IF wire[src].kind = "error" THEN errorMessage(wire[src].e, fallback) ELSE Null

SourceSettled(src, load, rows, err, fallback) ==
  /\ load = "pending" => rows = <<>> /\ err = Null
  /\ load = "done" => rows = DeliveredRows(src) /\ err = DeliveredError(src, fallback)

MacroDerived(c, b, e, m) ==
  [ cpiDates |-> cpiDates(c), ipcMixed |-> ipcMixed(c), latestIPC |-> latestIPC(c),
    bmDates |-> bmDates(b), BM_TOT |-> BM_TOT(b), latestBM |-> latestBM(b),
    expFOB |-> expFOB(e), impFOBAdj |-> impFOBAdj(m),
    tradeDates |-> tradeDates(e), importsForTrade |-> importsForTrade(e, m),
    tradeBalance |-> tradeBalance(e, m),
    latestTradeBalance |-> latestTradeBalance(e, m) ]

AllLoaded ==
  cpiLoad = "done" /\ bmLoad = "done" /\ expLoad = "done" /\ impLoad = "done"

C23_LoadersCommute ==
  /\ SourceSettled("cpi", cpiLoad, cpi, errCpi, "Failed to load inflation CSV")
  /\ SourceSettled("bm", bmLoad, bm, errBm, "Failed to load base_monetaria CSV")
  /\ SourceSettled("exp", expLoad, exp, errExp, "Failed to load exports CSV")
  /\ SourceSettled("imp", impLoad, imp, errImp, "Failed to load imports CSV")
  /\ AllLoaded =>
        MacroDerived(cpi, bm, exp, imp) =
          MacroDerived(DeliveredRows("cpi"), DeliveredRows("bm"),
                       DeliveredRows("exp"), DeliveredRows("imp"))

\* all four callbacks have run, one with an error and three with rows, and
\* the aligned balance holds a value
C23_Witness ==
  /\ AllLoaded
  /\ errCpi = Str("Not Found")
  /\ Len(bm) = 1 /\ Len(exp) = 2 /\ Len(imp) = 2
  /\ tradeBalance(exp, imp) = << Num(6), Num(5) >>


\* C24: no transformation mutates its inputs and every result is a new
\* array: a call of applyRange leaves the labels and the datasets it was
\* given as they were and returns arrays that are not the ones it was given.
C24_InputsKeptResultsNew ==
  [][ (called' /\ (result' # result \/ range' # range \/ ~called)) =>
         /\ labels' = labels
         /\ datasets' = datasets
         /\ ~applyRangeReturnsArguments(labels, datasets, range', tz)
    ]_vars


\* C25: window slicing is idempotent: for every token, applyRange applied to
\* its own output with the same token returns that output, and whenever the
\* call sliced, the anchor label of the output is the anchor label of the
\* input.
anchorOf(ls) ==
  IF LastTruthyIdx(ls, Len(ls)) >= 1 THEN ls[LastTruthyIdx(ls, Len(ls))] ELSE Undefined

C25_SlicingIdempotent ==
  called =>
    LET once == applyRange(labels, datasets, range, tz)
    IN  /\ result = once
        /\ applyRange(once.labels, once.datasets, range, tz) = once
        /\ ~applyRangeReturnsArguments(labels, datasets, range, tz) =>
              anchorOf(once.labels) = anchorOf(labels)

\* C25 witness: a 5Y slice that dropped a label and kept two, east of UTC
C25_Witness ==
  /\ called /\ range = "5Y" /\ tz = 2
  /\ labels = << DateStr(2013, 6, 1), DateStr(2018, 6, 1), DateStr(2023, 6, 15) >>
  /\ result.labels = << DateStr(2018, 6, 1), DateStr(2023, 6, 15) >>


\* C26: the anchor is always retained: when the ts of the last Currency row
\* parses, the filter is non-empty for each of 1D / 1W / 1M and ends with that
\* last row, so latest is the last row of the data set under every range;
\* when the last non-absent trade date parses, the Macro page's trade chart
\* (applyRange with YTD / 5Y / 10Y) has labels that are non-empty and end
\* with that date.
C26_AnchorRetained ==
  /\ (curRows # << >> /\ parseTs(AtLast(curRows).ts, tz).valid) =>
        \A rng \in {"1D", "1W", "1M"} :
          LET f == filtered(curRows, rng, tz)
          IN  /\ Len(f) > 0
              /\ f[Len(f)] = AtLast(curRows)
              /\ curLatest(curRows, rng, tz) = AtLast(curRows)
  /\ LET dates == tradeDates(exp)
     IN  (Len(dates) > 0 /\ parseIsoDate(anchorOf(dates), tz).valid) =>
           \A rng \in {"YTD", "5Y", "10Y"} :
             LET kept == tradeFlowsData(exp, imp, rng, tz).labels
             IN  /\ Len(kept) > 0
                 /\ kept[Len(kept)] = anchorOf(dates)

\* C26 witness: the 1D window drops the week-old first row and keeps the anchor
C26_Witness ==
  /\ curRange = "1D"
  /\ Len(curRows) = 2
  /\ curRows[1].ts = TsStr(2024, 3, 24, 12)
  /\ curRows[2].ts = TsStr(2024, 3, 31, 12)
  /\ curFiltered = << curRows[2] >>
  /\ curLatest(curRows, "1M", tz) = curRows[2]


\* C27: windows are nested: the rows kept for 1D are a subsequence of those
\* kept for 1W, those a subsequence of those kept for 1M, and those of the
\* rows; when every trade date parses, the labels the Macro page's trade
\* chart keeps for 5Y are a subsequence of those kept for 10Y, and those of
\* the labels ALL returns.
RECURSIVE SubseqFrom(_, _, _, _)
\* a from position i on is an order-preserving subsequence of b from j on
SubseqFrom(a, b, i, j) ==
  IF i > Len(a) THEN TRUE
  ELSE IF j > Len(b) THEN FALSE
  ELSE IF a[i] = b[j] THEN SubseqFrom(a, b, i + 1, j + 1)
  ELSE SubseqFrom(a, b, i, j + 1)

IsSubsequence(a, b) == SubseqFrom(a, b, 1, 1)

AllLabelsParse(ls) == \A i \in DOMAIN ls : parseIsoDate(ls[i], tz).valid

C27_WindowsNested ==
  /\ LET day   == filtered(curRows, "1D", tz)
         week  == filtered(curRows, "1W", tz)
         month == filtered(curRows, "1M", tz)
     IN  /\ IsSubsequence(day, week)
         /\ IsSubsequence(week, month)
         /\ IsSubsequence(month, curRows)
  /\ LET dates == tradeDates(exp)
     IN  AllLabelsParse(dates) =>
           LET five == tradeFlowsData(exp, imp, "5Y", tz).labels
               ten  == tradeFlowsData(exp, imp, "10Y", tz).labels
               all  == tradeFlowsData(exp, imp, "ALL", tz).labels
           IN  /\ IsSubsequence(five, ten)
               /\ IsSubsequence(ten, all)
               /\ all = dates

\* C27 witness: three trade dates of which 5Y (selected) keeps one, 10Y two
\* and ALL three
C27_Witness ==
  /\ tab = "macro" /\ macRange = "5Y" /\ tz = 0
  /\ tradeDates(exp) = << DateStr(2013, 5, 31), DateStr(2018, 5, 31), DateStr(2023, 6, 15) >>
  /\ tradeFlowsData(exp, imp, macRange, tz).labels = << DateStr(2023, 6, 15) >>
  /\ tradeFlowsData(exp, imp, "10Y", tz).labels =
       << DateStr(2018, 5, 31), DateStr(2023, 6, 15) >>


\* C28: when several imports rows carry the same date, the lookup keeps the
\* last of them in source order and importsForTrade uses that row's value at
\* every exports position with that date (no value when no imports row has
\* the date), so repeated exports dates receive the same value; the keys of
\* the lookup are the non-absent dates of the imports rows.
LastImportOf(d) ==
  LET matches == { j \in DOMAIN imp : imp[j].date = d }
  IN  CHOOSE j \in matches : \A k \in matches : k <= j

C28_LastDuplicateWins ==
  LET aligned == importsForTrade(exp, imp)
      byDate  == impByDate(imp)
  IN  /\ DOMAIN byDate = { imp[j].date : j \in DOMAIN imp }
      /\ \A d \in DOMAIN byDate : Truthy(d) /\ byDate[d] = imp[LastImportOf(d)]
      /\ \A i \in DOMAIN exp :
            IF \E j \in DOMAIN imp : imp[j].date = exp[i].date
              THEN aligned[i] = importValue(imp[LastImportOf(exp[i].date)])
              ELSE aligned[i] = Null
      /\ \A i, k \in DOMAIN exp :
            exp[i].date = exp[k].date => aligned[i] = aligned[k]

\* C28 witness: two imports rows of one date with values 4 then 3, and two
\* exports rows of that date
C28_Witness ==
  /\ Len(imp) = 2 /\ Len(exp) = 2
  /\ imp[1].date = imp[2].date
  /\ exp[1].date = imp[1].date /\ exp[2].date = imp[1].date
  /\ importValue(imp[1]) = Num(4)
  /\ importValue(imp[2]) = Num(3)
  /\ importsForTrade(exp, imp) = << Num(3), Num(3) >>


\* C29: for every row count sparkSlice and sparkLabels have the same length,
\* min(48, number of rows), and whenever minPair or maxPair is defined its
\* index i satisfies 0 <= i < length, sparkSlice[i] is its value and
\* sparkLabels[i] is the ts of the row that value was computed from.
PairConsistent(pair, w, ls, rows) ==
  pair # Null =>
    LET src == Len(rows) - Len(w) + pair.i + 1
    IN  /\ 0 <= pair.i /\ pair.i < Len(w)
        /\ w[pair.i + 1] = pair.v
        /\ src \in DOMAIN rows
        /\ pair.v = midFromBA(rows[src])
        /\ ls[pair.i + 1] = FieldOf(rows[src], "ts")

C29_SparkWindowConsistent ==
  LET w  == sparkSlice(homeRows)
      ls == sparkLabels(homeRows)
      n  == Len(homeRows)
  IN  /\ Len(w) = Len(ls)
      /\ Len(w) = IF n < SparkWindow THEN n ELSE SparkWindow
      /\ PairConsistent(minPair(homeRows), w, ls, homeRows)
      /\ PairConsistent(maxPair(homeRows), w, ls, homeRows)

\* C29 witness: a CSV longer than the window whose minimum and maximum sit
\* at different positions of the window
C29_Witness ==
  /\ Len(homeRows) > SparkWindow
  /\ Len(sparkLabels(homeRows)) = SparkWindow
  /\ minPair(homeRows) # Null
  /\ maxPair(homeRows) # Null
  /\ minPair(homeRows).i # maxPair(homeRows).i


\* C30: once the currency CSV parse has finished, by complete (with any
\* number of usable rows, zero included) or by error, the Currency page
\* eventually no longer shows "Loading"; and an error once recorded is never
\* cleared by a later callback.  (That the page then shows the data or an
\* error fails besides for an unparseable anchor, the case of C7.)
C30_LoadingEnds ==
  /\ (curLoad = "done") ~> ~showsLoading(curRows, curErr)
  /\ [][curErr # Null => curErr' = curErr]_vars

====
